---- MODULE Spec2Model ----
(***************************************************************************)
(* Error handling core of the website: the retry-with-backoff executor     *)
(* (withRetry, isErrorRetryable, Logger), the rotating file logger         *)
(* (ServerErrorLogger: logToFile, rotateLogs, getRecentLogs, clearLogs),   *)
(* the log dispatch facade (ErrorLogger.log, ServerErrorLogger.log,        *)
(* Logger.log), the health check aggregator (HealthChecker), the request   *)
(* metrics recorder (recordRequest, withMetrics), the uptime monitor       *)
(* (UptimeMonitor), the error submission endpoint (POST /api/errors) and   *)
(* the handler boundaries (handleAsyncError, withErrorHandling).           *)
(*                                                                         *)
(* JavaScript strings are modelled as sequences of one-character strings,  *)
(* so that includes() and toLowerCase() are computed, not assumed.         *)
(* An optional value (undefined or v) is the sequence <<>> or <<v>>.       *)
(***************************************************************************)
EXTENDS Integers, Sequences, FiniteSets, TLC

VARIABLES
    \* ---- one withRetry call ----
    config,      \* the RetryConfig passed to withRetry
    logLevel,    \* Logger.logLevel (process.env.LOG_LEVEL || 'info')
    pc,          \* position of the call: "loop", "awaitOp", "sleep", "returned", "thrown"
    attempt,     \* the local variable attempt
    lastError,   \* the local variable lastError (optional)
    calls,       \* number of times operation() has been invoked
    inFlight,    \* operation() promises not yet settled
    timer,       \* the pending sleep(delay) timer (optional delay)
    events,      \* what the call did, in order: invocations, settlements, logs, delays
    outcome,     \* how the withRetry promise settled
    \* ---- isErrorRetryable applied to one input ----
    clsError, clsPatterns, clsResult,
    \* ---- the log directory and the clock ----
    dirExists,   \* whether the logs directory exists
    fs,          \* directory entries: file name -> [lines, mtime]
    now,         \* the clock, in ticks
    written,     \* number of logToFile calls made
    lastWrite,   \* what the last logToFile call did (history)
    \* ---- reading and clearing the log directory ----
    unreadable,  \* names of the entries readFile fails on
    lastRead,    \* what the last getRecentLogs call did (history)
    lastClear,   \* what the last clearLogs call did (history)
    \* ---- the logger's calls under file-system failures ----
    lastCall,    \* what the last call did and how it settled (history)
    \* ---- the log dispatch facade ----
    facadeEnv,   \* NODE_ENV, typeof window, ERROR_WEBHOOK_URL, LOG_LEVEL
    facadeCall,  \* what the last facade call did and how it settled (history)
    \* ---- one runHealthChecks call ----
    hInput,      \* what the four probes will find, and whether the email provider is reachable
    hProbe,      \* probe name -> its settled HealthCheck (optional)
    hOrder,      \* the probes in the order they settled
    hSnapshot,   \* how the runHealthChecks promise settled (optional)
    \* ---- the metrics store and the handlers wrapped by withMetrics ----
    mMetrics,    \* HealthChecker.metrics
    mNow,        \* Date.now(), in ticks
    mFlight,     \* the wrapped invocations whose handler has not settled
    mNext,       \* number of wrapped invocations made so far
    mDone,       \* the settled invocations, in the order they settled (history)
    mLog,        \* the recordRequest calls made, in order (history)
    mEpoch,      \* number of resetMetrics calls made so far (history)
    \* ---- the uptime monitor ----
    upChecks,    \* UptimeMonitor.checks
    upHist,      \* every outcome recordCheck was called with, in order (history)
    upPattern,   \* the schedule the outcomes of the health checks follow
    upStats,     \* what the last getStats call returned (optional)
    \* ---- the error submission endpoint ----
    postCall,    \* the POST handled: request, failures, response (history, optional)
    \* ---- the handler boundaries ----
    bCall,       \* the wrapped call made: wrapper, operation, outcome (history, optional)
    \* ---- withRetry under a context that may not serialize ----
    rContext,    \* the context object passed to withRetry, as it is now
    \* ---- one AppError construction ----
    aeCall,      \* the arguments and the constructed AppError (history, optional)
    \* ---- concurrent logToFile calls on one directory ----
    rcProc,      \* call -> its position and local variables
    \* ---- concurrent file-system probes on the shared marker file ----
    mkProc,      \* probe -> its position and result
    mkFile,      \* the marker file: who wrote its content (optional)
    \* ---- metrics snapshots ----
    mHeap,       \* the endpoints objects ever allocated, by the number of resets before
    mSnap,       \* the snapshot getMetrics returned, and what it held then (optional)
    \* ---- the two file loggers side by side ----
    eqCall       \* the calls made on both loggers and what each returned (history)

retryVars == <<config, logLevel, pc, attempt, lastError, calls, inFlight, timer, events, outcome>>
clsVars == <<clsError, clsPatterns, clsResult>>
logVars == <<dirExists, fs, now, written, lastWrite>>
maintVars == <<unreadable, lastRead, lastClear>>
faultVars == <<lastCall>>
facadeVars == <<facadeEnv, facadeCall>>
healthVars == <<hInput, hProbe, hOrder, hSnapshot>>
metricsVars == <<mMetrics, mNow, mFlight, mNext, mDone, mLog, mEpoch>>
uptimeVars == <<upChecks, upHist, upPattern, upStats>>
postVars == <<postCall>>
boundaryVars == <<bCall>>
retryCtxVars == <<rContext>>
appErrVars == <<aeCall>>
raceVars == <<rcProc>>
markerVars == <<mkProc, mkFile>>
snapVars == <<mHeap, mSnap>>
equivVars == <<eqCall>>
lateVars == <<retryCtxVars, appErrVars, raceVars, markerVars, snapVars, equivVars>>
obsVars == <<metricsVars, uptimeVars, postVars, boundaryVars, lateVars>>
extVars == <<maintVars, faultVars, facadeVars, healthVars, obsVars>>
coreVars == <<retryVars, clsVars, logVars, maintVars, faultVars, facadeVars, healthVars>>
vars == <<retryVars, clsVars, logVars, extVars>>

(***************************************************************************)
(* Bounds of the model.                                                    *)
(***************************************************************************)
MaxAttemptsBound == 6
MaxWrites == 3
MaxTicks == 4
DayTicks == 2
StartDay == 20

(***************************************************************************)
(* Strings.                                                                *)
(***************************************************************************)
Upper == <<"A","B","C","D","E","F","G","H","I","J","K","L","M",
           "N","O","P","Q","R","S","T","U","V","W","X","Y","Z">>
Lower == <<"a","b","c","d","e","f","g","h","i","j","k","l","m",
           "n","o","p","q","r","s","t","u","v","w","x","y","z">>

LowerChar(c) ==
    IF \E i \in 1..26 : Upper[i] = c
    THEN Lower[CHOOSE i \in 1..26 : Upper[i] = c]
    ELSE c

\* String.prototype.toLowerCase
ToLowerCase(s) == [i \in 1..Len(s) |-> LowerChar(s[i])]

\* String.prototype.includes
Includes(s, p) ==
    \E i \in 0..(Len(s) - Len(p)) : SubSeq(s, i + 1, i + Len(p)) = p

S_timeout    == <<"t","i","m","e","o","u","t">>
S_network    == <<"n","e","t","w","o","r","k">>
S_ECONNRESET == <<"E","C","O","N","N","R","E","S","E","T">>
S_ENOTFOUND  == <<"E","N","O","T","F","O","U","N","D">>
S_ETIMEDOUT  == <<"E","T","I","M","E","D","O","U","T">>
S_rate_limit == <<"r","a","t","e"," ","l","i","m","i","t">>
S_5          == <<"5">>

\* messages operations fail with
M_network_down == <<"n","e","t","w","o","r","k"," ","d","o","w","n">>
M_Network_Down == <<"N","e","t","w","o","r","k"," ","D","o","w","n">>
M_Timeout      == <<"T","i","m","e","o","u","t">>
M_bad_input    == <<"b","a","d"," ","i","n","p","u","t">>
M_Rate_Limit   == <<"A","P","I"," ","R","a","t","e"," ","L","i","m","i","t">>
M_http_503     == <<"h","t","t","p"," ","5","0","3">>
M_enotfound    == <<"g","e","t","a","d","d","r","i","n","f","o"," ",
                    "E","N","O","T","F","O","U","N","D">>
M_econnreset_l == <<"e","c","o","n","n","r","e","s","e","t">>
M_socket       == <<"s","o","c","k","e","t">>
M_empty        == <<>>

None == <<>>
Some(v) == <<v>>

\* an Error object as isErrorRetryable reads it: message, code, status
Err(m, c, s) == [message |-> m, code |-> c, status |-> s]

(***************************************************************************)
(* isErrorRetryable (part_000:154-172).                                    *)
(***************************************************************************)
\* the branch taken when retryableErrors is undefined
DefaultRetryable(error) ==
    \/ Includes(error.message, S_timeout)
    \/ Includes(error.message, S_network)
    \/ Includes(error.message, S_ECONNRESET)
    \/ Includes(error.message, S_ENOTFOUND)
    \/ error.code = Some(S_ECONNRESET)
    \/ error.code = Some(S_ETIMEDOUT)
    \/ (error.status # None /\ error.status[1] >= 500)

\* retryableErrors.some(pattern => ...)
PatternRetryable(error, patterns) ==
    \E k \in 1..Len(patterns) :
        \/ Includes(ToLowerCase(error.message), ToLowerCase(patterns[k]))
        \/ error.code = Some(patterns[k])

\* faulty variant: patterns matched case-sensitively, and status consulted always
IsErrorRetryable_CaseSensitive(error, retryableErrors) ==
    IF retryableErrors = None
    THEN DefaultRetryable(error)
    ELSE \/ \E k \in 1..Len(retryableErrors[1]) :
               \/ Includes(error.message, retryableErrors[1][k])
               \/ error.code = Some(retryableErrors[1][k])
         \/ (error.status # None /\ error.status[1] >= 500)

IsErrorRetryable(error, retryableErrors) ==
    IF retryableErrors = None
    THEN DefaultRetryable(error)
    ELSE PatternRetryable(error, retryableErrors[1])

(***************************************************************************)
(* Logger.shouldLog (part_000:203-209).                                    *)
(***************************************************************************)
Levels == <<"error", "warn", "info", "debug">>

\* Array.prototype.indexOf, 0-based, -1 when absent
IndexOf(seq, x) ==
    IF \E i \in 1..Len(seq) : seq[i] = x
    THEN (CHOOSE i \in 1..Len(seq) : seq[i] = x /\ \A j \in 1..(i - 1) : seq[j] # x) - 1
    ELSE -1

ShouldLog(level) == IndexOf(Levels, level) <= IndexOf(Levels, logLevel)

(***************************************************************************)
(* RETRY_CONFIGS (part_000:333-355) and the policies tried.                *)
(***************************************************************************)
Policy(n, base, cap, mult, pats) ==
    [maxAttempts |-> n, baseDelay |-> base, maxDelay |-> cap,
     backoffMultiplier |-> mult, retryableErrors |-> pats]

RETRY_CONFIGS ==
    [github |-> Policy(3, 1000, 10000, 2, Some(<<S_ECONNRESET, S_ETIMEDOUT, S_rate_limit>>)),
     email  |-> Policy(3, 2000, 15000, 2, Some(<<S_timeout, S_network, S_5>>)),
     api    |-> Policy(2, 500, 5000, 2, Some(<<S_timeout, S_network>>))]

Policies ==
    {RETRY_CONFIGS.github, RETRY_CONFIGS.email, RETRY_CONFIGS.api}
    \cup {Policy(n, base, cap, mult, pats) :
            n \in 1..MaxAttemptsBound, base \in {1000}, cap \in {1500, 10000},
            mult \in {1, 2}, pats \in {None, Some(<<S_network, S_rate_limit>>)}}

\* what operation() may reject with
OpErrors ==
    {Err(M_network_down, None, None),
     Err(M_Rate_Limit, None, None),
     Err(M_socket, Some(S_ECONNRESET), None),
     Err(M_bad_input, None, Some(400))}

\* what operation() may resolve with
OpResults == {"r1", "r2"}

(***************************************************************************)
(* The backoff delay (part_000:131-134).                                   *)
(***************************************************************************)
RECURSIVE Pow(_, _)
Pow(b, e) == IF e = 0 THEN 1 ELSE b * Pow(b, e - 1)

Min(a, b) == IF a < b THEN a ELSE b

\* faulty variant: exponent attempt instead of attempt - 1
BackoffDelay_OffByOne(cfg, k) ==
    Min(cfg.baseDelay * Pow(cfg.backoffMultiplier, k), cfg.maxDelay)

BackoffDelay(cfg, k) ==
    Min(cfg.baseDelay * Pow(cfg.backoffMultiplier, k - 1), cfg.maxDelay)

(***************************************************************************)
(* withRetry (part_000:91-149).                                            *)
(***************************************************************************)
LogLevels == {"error", "warn", "info", "verbose"}

Ev(type, level, msg, att, delay, err) ==
    [type |-> type, level |-> level, msg |-> msg, attempt |-> att,
     delay |-> delay, error |-> err]

\* Logger.log (part_000:219-256): one console record when the level is enabled
LoggerLog(level, msg, att, delay, err) ==
    IF ShouldLog(level) THEN <<Ev("log", level, msg, att, delay, err)>> ELSE <<>>

\* faulty variant: the success log is written on a first-attempt success too
LogInfoSuccess_Always(att) ==
    LoggerLog("info", "Operation succeeded after retry", att + 1, 0, None)

\* lines 104-110
LogInfoSuccess(att) ==
    IF att > 0
    THEN LoggerLog("info", "Operation succeeded after retry", att + 1, 0, None)
    ELSE <<>>

\* lines 136-142
LogWarnRetry(att, delay, err) ==
    LoggerLog("warn", "Operation failed, retrying", att, delay, Some(err.message))

\* lines 121-126
LogErrorFinal(att, err) ==
    LoggerLog("error", "Operation failed after all retries", att, 0, Some(err))

\* faulty variant: one attempt too few
ShouldThrow_OneEarly(isRetryable, att, cfg) ==
    ~isRetryable \/ att + 1 >= cfg.maxAttempts

\* faulty variant: the retryability of the error is not consulted
ShouldThrow_IgnoreRetryable(isRetryable, att, cfg) ==
    att >= cfg.maxAttempts

\* faulty variant: > for >=, so the last failure is followed by a delay
ShouldThrow_Late(isRetryable, att, cfg) ==
    ~isRetryable \/ att > cfg.maxAttempts

\* line 120
ShouldThrow(isRetryable, att, cfg) ==
    ~isRetryable \/ att >= cfg.maxAttempts

\* faulty variant: sleep(delay) is not awaited
PcAfterSleepStarted_NoAwait == "loop"

\* line 144: the call is suspended until the timer fires
PcAfterSleepStarted == "sleep"

RetryInit ==
    /\ config \in Policies
    /\ logLevel \in LogLevels
    /\ pc = "loop"
    /\ attempt = 0
    /\ lastError = None
    /\ calls = 0
    /\ inFlight = 0
    /\ timer = None
    /\ events = <<>>
    /\ outcome = [kind |-> "pending", value |-> None]

\* lines 99-101, and line 148 when the loop condition is false
Invoke ==
    /\ pc = "loop"
    /\ IF attempt < config.maxAttempts
       THEN /\ calls' = calls + 1
            /\ inFlight' = inFlight + 1
            /\ pc' = "awaitOp"
            /\ events' = Append(events, Ev("invoke", "", "", calls + 1, 0, None))
            /\ UNCHANGED outcome
       ELSE /\ outcome' = [kind |-> "thrown", value |-> lastError]
            /\ pc' = "thrown"
            /\ events' = Append(events, Ev("throw", "", "", attempt, 0, lastError))
            /\ UNCHANGED <<calls, inFlight>>
    /\ UNCHANGED <<config, logLevel, attempt, lastError, timer>>
    /\ UNCHANGED <<clsVars, logVars, extVars>>

\* lines 101-112: operation() resolves
OpResolves(r) ==
    /\ pc = "awaitOp"
    /\ inFlight' = inFlight - 1
    /\ events' = events \o <<Ev("ok", "", "", calls, 0, None)>>
                        \o LogInfoSuccess(attempt)
                        \o <<Ev("return", "", "", calls, 0, None)>>
    /\ outcome' = [kind |-> "returned", value |-> Some(r)]
    /\ pc' = "returned"
    /\ UNCHANGED <<config, logLevel, attempt, lastError, calls, timer>>
    /\ UNCHANGED <<clsVars, logVars, extVars>>

\* lines 113-145: operation() rejects with error e
OpRejects(e) ==
    /\ pc = "awaitOp"
    /\ inFlight' = inFlight - 1
    /\ lastError' = Some(e)
    /\ attempt' = attempt + 1
    /\ LET isRetryable == IsErrorRetryable(e, config.retryableErrors)
           delay == BackoffDelay(config, attempt + 1)
       IN  IF ShouldThrow(isRetryable, attempt + 1, config)
           THEN /\ events' = events \o <<Ev("fail", "", "", calls, 0, Some(e))>>
                                    \o LogErrorFinal(attempt + 1, e)
                                    \o <<Ev("throw", "", "", attempt + 1, 0, Some(e))>>
                /\ outcome' = [kind |-> "thrown", value |-> Some(e)]
                /\ pc' = "thrown"
                /\ UNCHANGED timer
           ELSE /\ events' = events \o <<Ev("fail", "", "", calls, 0, Some(e))>>
                                    \o LogWarnRetry(attempt + 1, delay, e)
                                    \o <<Ev("delay", "", "", attempt + 1, delay, None)>>
                /\ timer' = Some(delay)
                /\ pc' = PcAfterSleepStarted
                /\ UNCHANGED outcome
    /\ UNCHANGED <<config, logLevel, calls>>
    /\ UNCHANGED <<clsVars, logVars, extVars>>

\* lines 177-179: the timer of sleep(delay) fires and the call resumes
SleepDone ==
    /\ timer # None
    /\ timer' = None
    /\ events' = Append(events, Ev("elapsed", "", "", attempt, timer[1], None))
    /\ pc' = IF pc = "sleep" THEN "loop" ELSE pc
    /\ UNCHANGED <<config, logLevel, attempt, lastError, calls, inFlight, outcome>>
    /\ UNCHANGED <<clsVars, logVars, extVars>>

Next ==
    \/ Invoke
    \/ \E r \in OpResults : OpResolves(r)
    \/ \E e \in OpErrors : OpRejects(e)
    \/ SleepDone

RetryIdle ==
    /\ config = RETRY_CONFIGS.api
    /\ logLevel = "info"
    /\ pc = "returned"
    /\ attempt = 0
    /\ lastError = None
    /\ calls = 0
    /\ inFlight = 0
    /\ timer = None
    /\ events = <<>>
    /\ outcome = [kind |-> "pending", value |-> None]

ClsIdle ==
    /\ clsError = Err(M_empty, None, None)
    /\ clsPatterns = None
    /\ clsResult = None

LogIdle ==
    /\ dirExists = FALSE
    /\ fs = <<>>
    /\ now = 0
    /\ written = 0
    /\ lastWrite = None

MaintIdle ==
    /\ unreadable = {}
    /\ lastRead = None
    /\ lastClear = None

FaultIdle == lastCall = None

FacadeIdle ==
    /\ facadeEnv = None
    /\ facadeCall = None

HealthIdle ==
    /\ hInput = None
    /\ hProbe = None
    /\ hOrder = <<>>
    /\ hSnapshot = None

MetricsIdle ==
    /\ mMetrics = None
    /\ mNow = 0
    /\ mFlight = {}
    /\ mNext = 0
    /\ mDone = <<>>
    /\ mLog = <<>>
    /\ mEpoch = 0

UptimeIdle ==
    /\ upChecks = <<>>
    /\ upHist = <<>>
    /\ upPattern = None
    /\ upStats = None

PostIdle == postCall = None

BoundaryIdle == bCall = None

RetryCtxIdle == rContext = "none"
AppErrIdle == aeCall = None
RaceIdle == rcProc = <<>>
MarkerIdle == mkProc = <<>> /\ mkFile = None
SnapIdle == mHeap = <<>> /\ mSnap = None
EquivIdle == eqCall = <<>>

LateIdle == RetryCtxIdle /\ AppErrIdle /\ RaceIdle /\ MarkerIdle /\ SnapIdle /\ EquivIdle

ObsIdle == MetricsIdle /\ UptimeIdle /\ PostIdle /\ BoundaryIdle /\ LateIdle

ExtIdle == MaintIdle /\ FaultIdle /\ FacadeIdle /\ HealthIdle /\ ObsIdle

Init == RetryInit /\ ClsIdle /\ LogIdle /\ ExtIdle

Spec == Init /\ [][Next]_vars

(***************************************************************************)
(* Reading the history of the withRetry call.                              *)
(***************************************************************************)
Idx(type) == {i \in DOMAIN events : events[i].type = type}
LogIdx(level) == {i \in DOMAIN events : events[i].type = "log" /\ events[i].level = level}
Terminated == pc \in {"returned", "thrown"}
Retryable(e) == IsErrorRetryable(e, config.retryableErrors)
\* the index in events of the last failure, 0 when there is none
LastFail == IF Idx("fail") = {} THEN 0 ELSE CHOOSE i \in Idx("fail") : \A j \in Idx("fail") : j <= i
\* the delays started so far, in order
RECURSIVE DelaysOf(_)
DelaysOf(evs) ==
    IF evs = <<>> THEN <<>>
    ELSE IF Head(evs).type = "delay" THEN <<Head(evs).delay>> \o DelaysOf(Tail(evs))
    ELSE DelaysOf(Tail(evs))
IsPrefix(s, t) == Len(s) <= Len(t) /\ SubSeq(t, 1, Len(s)) = s

C3_BackoffDelays ==
    LET ds == DelaysOf(events) IN
    /\ \A k \in DOMAIN ds :
          /\ ds[k] = Min(config.baseDelay * Pow(config.backoffMultiplier, k - 1), config.maxDelay)
          /\ ds[k] <= config.maxDelay
          /\ k > 1 => ds[k - 1] <= ds[k]
    /\ \A i \in Idx("delay") :
          /\ events[i].attempt = Cardinality({j \in Idx("fail") : j < i})
          /\ events[i].attempt < config.maxAttempts
    /\ \A i \in Idx("elapsed") : events[i].delay = DelaysOf(SubSeq(events, 1, i))[events[i].attempt]
    /\ timer # None => timer[1] = ds[Len(ds)]
    /\ (config.baseDelay = 1000 /\ config.backoffMultiplier = 2 /\ config.maxDelay = 10000)
          => IsPrefix(ds, <<1000, 2000, 4000, 8000, 10000, 10000, 10000>>)

C3_Witness ==
    LET ds == DelaysOf(events) IN
    /\ Len(ds) >= 5
    /\ ds[4] < config.maxDelay
    /\ ds[5] = config.maxDelay
    /\ config.baseDelay * Pow(config.backoffMultiplier, 4) > config.maxDelay

C4_WitnessSingleAttempt ==
    /\ pc = "thrown"
    /\ config.maxAttempts = 1
    /\ calls = 1

C6_WitnessThrown ==
    /\ pc = "thrown"
    /\ Cardinality(LogIdx("warn")) >= 1
    /\ Cardinality(LogIdx("error")) = 1

(***************************************************************************)
(* C7. The invocations of one call are sequential: at most one is in       *)
(* flight, none is in flight while a delay is pending, and every           *)
(* invocation after the first starts right after the delay that followed   *)
(* the failure of the previous one has elapsed.                            *)
(***************************************************************************)
C7_SequentialInvocations ==
    /\ inFlight <= 1
    /\ inFlight = Cardinality(Idx("invoke")) - Cardinality(Idx("ok")) - Cardinality(Idx("fail"))
    /\ pc = "awaitOp" <=> inFlight = 1
    /\ timer # None => (inFlight = 0 /\ pc = "sleep")
    /\ \A i \in Idx("invoke") :
          events[i].attempt > 1 =>
              /\ events[i - 1].type = "elapsed"
              /\ \E f \in Idx("fail"), d \in Idx("delay") :
                    /\ f < d /\ d < i - 1
                    /\ events[f].attempt = events[i].attempt - 1
                    /\ events[d].attempt = events[i].attempt - 1
                    /\ events[i - 1].delay = events[d].delay
    /\ \A i \in Idx("invoke") : events[i].attempt = Cardinality({j \in Idx("invoke") : j <= i})

C7_Witness ==
    /\ pc = "awaitOp"
    /\ calls >= 3
    /\ inFlight = 1

(***************************************************************************)
(* isErrorRetryable applied to one error and one retryableErrors value.    *)
(***************************************************************************)
S_RATE_LIMIT_U == <<"R","A","T","E"," ","L","I","M","I","T">>
S_econnreset_l == <<"e","c","o","n","n","r","e","s","e","t">>

ClsErrors ==
    {Err(M_network_down, None, None),
     Err(M_Network_Down, None, None),
     Err(M_Timeout, None, None),
     Err(S_timeout, None, Some(408)),
     Err(M_bad_input, None, Some(400)),
     Err(M_bad_input, None, Some(499)),
     Err(M_bad_input, None, Some(500)),
     Err(M_bad_input, None, Some(503)),
     Err(M_bad_input, None, None),
     Err(M_socket, Some(S_ECONNRESET), None),
     Err(M_socket, Some(S_ETIMEDOUT), None),
     Err(M_socket, Some(S_econnreset_l), None),
     Err(M_socket, Some(S_rate_limit), None),
     Err(M_econnreset_l, None, None),
     Err(M_enotfound, None, None),
     Err(M_Rate_Limit, None, None),
     Err(M_http_503, None, None),
     Err(M_empty, None, None)}

ClsPatternLists ==
    {None,
     Some(<<>>),
     RETRY_CONFIGS.github.retryableErrors,
     RETRY_CONFIGS.email.retryableErrors,
     RETRY_CONFIGS.api.retryableErrors,
     Some(<<S_RATE_LIMIT_U>>),
     Some(<<M_empty>>)}

ClsInit ==
    /\ clsError \in ClsErrors
    /\ clsPatterns \in ClsPatternLists
    /\ clsResult = None

\* const isRetryable = isErrorRetryable(error as Error, config.retryableErrors)
Classify ==
    /\ clsResult = None
    /\ clsResult' = Some(IsErrorRetryable(clsError, clsPatterns))
    /\ UNCHANGED <<clsError, clsPatterns>>
    /\ UNCHANGED <<retryVars, logVars, extVars>>

NextClassify == Classify

InitClassify == RetryIdle /\ ClsInit /\ LogIdle /\ ExtIdle

SpecClassify == InitClassify /\ [][NextClassify]_vars

(***************************************************************************)
(* The reference classifier of section 4.1, written from its wording.      *)
(***************************************************************************)
\* w occurs in s: s is some a, then w, then some b
Occurs(w, s) ==
    \E a \in 0..Len(s) : \E b \in 0..Len(s) :
        /\ a + Len(w) + b = Len(s)
        /\ \A k \in 1..Len(w) : s[a + k] = w[k]

\* the two characters are the same letter, whatever their case
SameLetter(x, y) ==
    \/ x = y
    \/ \E i \in 1..26 : {x, y} = {Upper[i], Lower[i]}

OccursIgnoringCase(w, s) ==
    \E a \in 0..Len(s) : \E b \in 0..Len(s) :
        /\ a + Len(w) + b = Len(s)
        /\ \A k \in 1..Len(w) : SameLetter(s[a + k], w[k])

RefRetryable(error, patterns) ==
    IF patterns # None
    THEN \E k \in DOMAIN patterns[1] :
            \/ OccursIgnoringCase(patterns[1][k], error.message)
            \/ (error.code # None /\ error.code[1] = patterns[1][k])
    ELSE \/ \E w \in {S_timeout, S_network, S_ECONNRESET, S_ENOTFOUND} : Occurs(w, error.message)
         \/ (error.code # None /\ error.code[1] \in {S_ECONNRESET, S_ETIMEDOUT})
         \/ (error.status # None /\ ~(error.status[1] < 500))

(***************************************************************************)
(* C5. isErrorRetryable agrees with the reference classifier on every      *)
(* error and every retryableErrors value: with patterns, some pattern is a *)
(* case-insensitive substring of the message or equals the code (a status  *)
(* >= 500 alone does not count); without, the message contains one of the  *)
(* four words case-sensitively, or the code is ECONNRESET or ETIMEDOUT, or *)
(* the status is >= 500.                                                   *)
(***************************************************************************)
C5_ClassifierMatchesReference ==
    clsResult # None => clsResult[1] = RefRetryable(clsError, clsPatterns)

C5_Witness ==
    /\ clsResult = Some(FALSE)
    /\ clsPatterns # None
    /\ clsPatterns[1] # <<>>
    /\ clsError.status = Some(503)

C5_WitnessCaseInsensitive ==
    /\ clsResult = Some(TRUE)
    /\ clsPatterns = RETRY_CONFIGS.api.retryableErrors
    /\ clsError.message = M_Network_Down

(***************************************************************************)
(* The rotating file logger: ServerErrorLogger (part_002:32-97).           *)
(*                                                                         *)
(* A directory entry name is a record.  [kind |-> "log", date |-> d,       *)
(* rot |-> <<t1, .., tk>>] stands for 'error-<d>-<t1>-..-<tk>.log': the    *)
(* file of day d, renamed by rotation at the times t1, .., tk.  The ISO    *)
(* date and the rotation timestamp have a fixed width, so they sort as     *)
(* the numbers d and t do.  A line is the JSON text of one record and its  *)
(* newline, held as the record's id and its length in bytes.               *)
(***************************************************************************)
maxLogFiles == 10
maxLogSize == 10 * 1024 * 1024

LogName(d, rot) == [kind |-> "log", date |-> d, rot |-> rot]
OtherName == [kind |-> "other", date |-> 0, rot |-> <<>>]

\* new Date().toISOString().split('T')[0]
Day(t) == t \div DayTicks

\* file.startsWith('error-') && file.endsWith('.log')
IsLogFile(n) == n.kind = "log"

\* the strings after the date compared as sort() compares them: the next
\* character is '-' (0x2D) when a timestamp follows and '.' (0x2E) when the
\* name ends, so the name that ends is the greater one
RECURSIVE RotLess(_, _)
RotLess(s, t) ==
    IF s = <<>> THEN FALSE
    ELSE IF t = <<>> THEN TRUE
    ELSE Head(s) < Head(t) \/ (Head(s) = Head(t) /\ RotLess(Tail(s), Tail(t)))

NameLess(a, b) == a.date < b.date \/ (a.date = b.date /\ RotLess(a.rot, b.rot))

\* faulty variant: .sort() without .reverse()
RECURSIVE SortedNewestFirst_Ascending(_)
SortedNewestFirst_Ascending(S) ==
    IF S = {} THEN <<>>
    ELSE LET m == CHOOSE x \in S : \A y \in S \ {x} : NameLess(x, y)
         IN  <<m>> \o SortedNewestFirst_Ascending(S \ {m})

\* .sort().reverse()
RECURSIVE SortedNewestFirst(_)
SortedNewestFirst(S) ==
    IF S = {} THEN <<>>
    ELSE LET m == CHOOSE x \in S : \A y \in S \ {x} : NameLess(y, x)
         IN  <<m>> \o SortedNewestFirst(S \ {m})

RECURSIVE SumBytes(_)
SumBytes(lines) == IF lines = <<>> THEN 0 ELSE Head(lines).bytes + SumBytes(Tail(lines))

\* stats.size
Size(file) == SumBytes(file.lines)

Range(seq) == {seq[i] : i \in DOMAIN seq}
Remove(dir, names) == [n \in DOMAIN dir \ names |-> dir[n]]

\* fs rename: the entry moves to the new name, replacing what was there
Rename(dir, from, to) ==
    [n \in (DOMAIN dir \ {from}) \cup {to} |-> IF n = to THEN dir[from] ELSE dir[n]]

\* faulty variant: flag 'w', the file is overwritten
WriteFileAppend_Overwrite(dir, name, line, t) ==
    [n \in DOMAIN dir \cup {name} |->
        IF n = name THEN [lines |-> <<line>>, mtime |-> t] ELSE dir[n]]

\* writeFile(logFile, logEntry, { flag: 'a' })
WriteFileAppend(dir, name, line, t) ==
    [n \in DOMAIN dir \cup {name} |->
        IF n = name
        THEN [lines |-> (IF name \in DOMAIN dir THEN dir[name].lines ELSE <<>>) \o <<line>>,
              mtime |-> t]
        ELSE dir[n]]

\* faulty variant: >= for >
Oversized_AtCeiling(file) == Size(file) >= maxLogSize

\* stats.size > this.maxLogSize
Oversized(file) == Size(file) > maxLogSize

\* file.replace('.log', `-${timestamp}.log`)
ArchiveName(name, t) == LogName(name.date, Append(name.rot, t))

\* logFiles.slice(this.maxLogFiles) when there are too many
FilesToDelete(logFiles) ==
    IF Len(logFiles) > maxLogFiles
    THEN SubSeq(logFiles, maxLogFiles + 1, Len(logFiles))
    ELSE <<>>

\* logFiles.slice(0, this.maxLogFiles)
FilesToCheck(logFiles) == SubSeq(logFiles, 1, Min(maxLogFiles, Len(logFiles)))

\* the second loop of rotateLogs: stat each file in turn, rename the oversized;
\* stat of a name that is gone throws and ends the pass
RECURSIVE RenameOversized(_, _, _)
RenameOversized(dir, files, t) ==
    IF files = <<>> THEN dir
    ELSE IF Head(files) \notin DOMAIN dir THEN dir
    ELSE IF Oversized(dir[Head(files)])
         THEN RenameOversized(Rename(dir, Head(files), ArchiveName(Head(files), t)), Tail(files), t)
         ELSE RenameOversized(dir, Tail(files), t)

RotateLogs(dir, t) ==
    LET logFiles == SortedNewestFirst({n \in DOMAIN dir : IsLogFile(n)})
    IN  RenameOversized(Remove(dir, Range(FilesToDelete(logFiles))), FilesToCheck(logFiles), t)

(***************************************************************************)
(* The directories the logger may find, and the records it is given.       *)
(***************************************************************************)
StartTick == StartDay * DayTicks
Line(id, bytes) == [id |-> id, bytes |-> bytes]
RecordBytes == {100, 200, 300}

\* one file per day for the k days before the first one, each with one record
OldFiles(k) ==
    [n \in {LogName(d, <<>>) : d \in (StartDay - k)..(StartDay - 1)} |->
        [lines |-> <<Line(0 - n.date, 100)>>, mtime |-> n.date * DayTicks]]

\* today's file, 200 bytes short of the ceiling
NearlyFull ==
    [n \in {LogName(StartDay, <<>>)} |->
        [lines |-> <<Line(0, maxLogSize - 200)>>, mtime |-> StartTick]]

Others == [n \in {OtherName} |-> [lines |-> <<Line(0, 1)>>, mtime |-> 0]]

Merge(f, g) == [n \in DOMAIN f \cup DOMAIN g |-> IF n \in DOMAIN f THEN f[n] ELSE g[n]]

InitialDirs ==
    {Merge(Others, Merge(OldFiles(k), full)) :
        k \in {0, 9, 10, 12}, full \in {NearlyFull, Remove(NearlyFull, DOMAIN NearlyFull)}}

LogInit ==
    /\ \/ dirExists = FALSE /\ fs = Remove(Others, DOMAIN Others)
       \/ dirExists = TRUE /\ fs \in InitialDirs
    /\ now = StartTick
    /\ written = 0
    /\ lastWrite = None

\* logToFile (part_002:40-61) with the rotation pass it ends with
LogToFile(bytes) ==
    /\ written < MaxWrites
    /\ LET name == LogName(Day(now), <<>>)
           line == Line(written + 1, bytes)
           mid  == WriteFileAppend(fs, name, line, now)
       IN  /\ dirExists' = TRUE
           /\ fs' = RotateLogs(mid, now)
           /\ lastWrite' = Some([name |-> name, line |-> line, time |-> now,
                                 hadDir |-> dirExists, pre |-> fs, mid |-> mid,
                                 afterRotation |->
                                     /\ lastWrite # None
                                     /\ lastWrite[1].name = name
                                     /\ Oversized(lastWrite[1].mid[name])])
    /\ written' = written + 1
    /\ UNCHANGED now
    /\ UNCHANGED <<retryVars, clsVars, extVars>>

\* time passes
Tick ==
    /\ now < StartTick + MaxTicks
    /\ now' = now + 1
    /\ UNCHANGED <<dirExists, fs, written, lastWrite>>
    /\ UNCHANGED <<retryVars, clsVars, extVars>>

NextLog ==
    \/ \E bytes \in RecordBytes : LogToFile(bytes)
    \/ Tick

InitLog == RetryIdle /\ ClsIdle /\ LogInit /\ ExtIdle

SpecLog == InitLog /\ [][NextLog]_vars

(***************************************************************************)
(* Reading the last logToFile call.                                        *)
(***************************************************************************)
LogFilesOf(dir) == {n \in DOMAIN dir : IsLogFile(n)}
LinesBefore(w) == IF w.name \in DOMAIN w.pre THEN w.pre[w.name].lines ELSE <<>>
\* the name under which the file called m before the rotation pass is found after it
HomeOf(w, m) == IF Size(w.mid[m]) > maxLogSize THEN LogName(m.date, Append(m.rot, w.time)) ELSE m
\* the names with at least maxLogFiles greater names in the directory
BeyondCeiling(dir) ==
    {n \in LogFilesOf(dir) :
        Cardinality({m \in LogFilesOf(dir) : NameLess(n, m)}) >= maxLogFiles}

(***************************************************************************)
(* C8. As stated: after logToFile the file error-<date>.log holds its      *)
(* earlier lines followed by exactly the new line, the directory exists,   *)
(* and every log file that existed before is still there with its earlier  *)
(* lines unchanged and in order.                                           *)
(***************************************************************************)
C8_AsStated ==
    lastWrite # None =>
        LET w == lastWrite[1] IN
        /\ dirExists
        /\ w.name = LogName(Day(w.time), <<>>)
        /\ w.name \in DOMAIN fs
        /\ fs[w.name].lines = LinesBefore(w) \o <<w.line>>
        /\ \A n \in LogFilesOf(w.pre) :
              n \in DOMAIN fs /\ IsPrefix(w.pre[n].lines, fs[n].lines)

(***************************************************************************)
(* C8, amended: logToFile creates the directory and the file if absent and *)
(* appends exactly one line to error-<date>.log, changing no other file;   *)
(* the rotation pass it ends with rewrites no line: every file left after  *)
(* the call holds exactly the lines it held after the append, under its    *)
(* name or, when it was over the size ceiling, under its archive name, and *)
(* the only files removed are those beyond the retained-file ceiling.      *)
(***************************************************************************)
C8_AppendOnly ==
    lastWrite # None =>
        LET w == lastWrite[1] IN
        /\ dirExists
        /\ w.name = LogName(Day(w.time), <<>>)
        /\ DOMAIN w.mid = DOMAIN w.pre \cup {w.name}
        /\ w.mid[w.name].lines = LinesBefore(w) \o <<w.line>>
        /\ \A n \in DOMAIN w.pre \ {w.name} : w.mid[n] = w.pre[n]
        /\ HomeOf(w, w.name) \in DOMAIN fs
        /\ fs[HomeOf(w, w.name)].lines = LinesBefore(w) \o <<w.line>>
        /\ \A n \in DOMAIN fs :
              \E m \in DOMAIN w.mid : n = HomeOf(w, m) /\ fs[n] = w.mid[m]
        /\ \A m \in DOMAIN w.mid :
              HomeOf(w, m) \in DOMAIN fs \/ m \in BeyondCeiling(w.mid)

C8_Witness ==
    /\ lastWrite # None
    /\ lastWrite[1].name \in DOMAIN lastWrite[1].pre
    /\ lastWrite[1].name \in DOMAIN fs
    /\ Len(fs[lastWrite[1].name].lines) >= 3

C8_WitnessCreated ==
    /\ lastWrite # None
    /\ ~lastWrite[1].hadDir
    /\ dirExists
    /\ fs[lastWrite[1].name].lines = <<lastWrite[1].line>>

(***************************************************************************)
(* C9. After the rotation pass that ends every logToFile at most           *)
(* maxLogFiles (10) files match error-*.log; the files deleted are exactly *)
(* those beyond the first 10 in descending name order, the 10 greatest     *)
(* names are all kept (under their name or their archive name), and no     *)
(* other directory entry is touched.                                       *)
(***************************************************************************)
C9_RetentionCeiling ==
    lastWrite # None =>
        LET w == lastWrite[1]
            gone == {m \in DOMAIN w.mid : HomeOf(w, m) \notin DOMAIN fs}
        IN
        /\ Cardinality(LogFilesOf(fs)) <= maxLogFiles
        /\ gone = BeyondCeiling(w.mid)
        /\ Cardinality(LogFilesOf(w.mid)) > maxLogFiles =>
              Cardinality(LogFilesOf(fs)) = maxLogFiles
        /\ Cardinality(LogFilesOf(w.mid)) <= maxLogFiles => gone = {}
        /\ \A n \in DOMAIN w.mid : ~IsLogFile(n) => (n \in DOMAIN fs /\ fs[n] = w.mid[n])

C9_Witness ==
    /\ lastWrite # None
    /\ Cardinality(LogFilesOf(lastWrite[1].mid)) >= maxLogFiles + 2
    /\ Cardinality(LogFilesOf(fs)) = maxLogFiles
    /\ lastWrite[1].name \in DOMAIN fs

(***************************************************************************)
(* C10. When the append takes the file strictly over maxLogSize, the       *)
(* rotation pass renames it to 'error-<date>-<timestamp>.log' with its     *)
(* content, and the canonical name is gone; a file of exactly maxLogSize   *)
(* or less stays; the next logToFile of that date then starts a fresh      *)
(* canonical file that holds only the new record.                          *)
(***************************************************************************)
C10_RotationBySize ==
    lastWrite # None =>
        LET w == lastWrite[1]
            archive == LogName(w.name.date, <<w.time>>)
        IN
        /\ Size(w.mid[w.name]) > maxLogSize =>
              /\ w.name \notin DOMAIN fs
              /\ archive \in DOMAIN fs
              /\ fs[archive] = w.mid[w.name]
        /\ Size(w.mid[w.name]) <= maxLogSize =>
              /\ w.name \in DOMAIN fs
              /\ fs[w.name] = w.mid[w.name]
              /\ archive \notin DOMAIN fs \ DOMAIN w.mid
        /\ w.afterRotation =>
              /\ w.name \notin DOMAIN w.pre
              /\ w.name \in DOMAIN fs
              /\ fs[w.name].lines = <<w.line>>

C10_Witness ==
    /\ lastWrite # None
    /\ lastWrite[1].afterRotation
    /\ fs[lastWrite[1].name].lines = <<lastWrite[1].line>>
    /\ \E n \in LogFilesOf(fs) : n.date = lastWrite[1].name.date /\ n.rot # <<>>

C10_WitnessAtCeiling ==
    /\ lastWrite # None
    /\ Size(lastWrite[1].mid[lastWrite[1].name]) = maxLogSize
    /\ lastWrite[1].name \in DOMAIN fs

(***************************************************************************)
(* Reading and clearing the log directory: ServerErrorLogger.getRecentLogs *)
(* and clearLogs (part_002:102-173).                                       *)
(*                                                                         *)
(* Here a line of a file carries its text, a sequence of characters; the   *)
(* content of the file is its lines, each followed by a newline.  The text *)
(* '{d}' with d a digit stands for the JSON object of record d, 'n' for    *)
(* the JSON value null, anything else is not JSON.                         *)
(*                                                                         *)
(* A file-system call that fails is an element of the set F of failures    *)
(* handed to the operation: [step, name] says that this step fails on this *)
(* entry (mkdir and readdir act on the directory, DirName).                *)
(***************************************************************************)
NL == "\n"
Whitespace == {" ", NL}
Digits == {"1", "2", "3", "4", "5", "6", "7", "8", "9"}

DirName == [kind |-> "dir", date |-> 0, rot |-> <<>>]
Failure(step, name) == [step |-> step, name |-> name]
Fails(F, step, name) == Failure(step, name) \in F

\* String.prototype.trim
RECURSIVE TrimStart(_)
TrimStart(s) ==
    IF s = <<>> \/ Head(s) \notin Whitespace THEN s ELSE TrimStart(Tail(s))

RECURSIVE TrimEnd(_)
TrimEnd(s) ==
    IF s = <<>> \/ s[Len(s)] \notin Whitespace THEN s
    ELSE TrimEnd(SubSeq(s, 1, Len(s) - 1))

Trim(s) == TrimEnd(TrimStart(s))

\* String.prototype.split(sep): the pieces between the separators, at least one
RECURSIVE Split(_, _)
Split(s, sep) ==
    IF \A i \in DOMAIN s : s[i] # sep THEN <<s>>
    ELSE LET k == CHOOSE i \in DOMAIN s : s[i] = sep /\ \A j \in 1..(i - 1) : s[j] # sep
         IN  <<SubSeq(s, 1, k - 1)>> \o Split(SubSeq(s, k + 1, Len(s)), sep)

\* faulty variant: the lines are read first-to-last
Reverse_Forward(seq) == seq

\* Array.prototype.reverse
Reverse(seq) == [i \in 1..Len(seq) |-> seq[Len(seq) + 1 - i]]

\* readFile(..., 'utf-8'): every line with its newline
RECURSIVE Content(_)
Content(lines) ==
    IF lines = <<>> THEN <<>> ELSE Head(lines).text \o <<NL>> \o Content(Tail(lines))

\* JSON.parse: white space around the value is allowed
JsonParse(text) ==
    LET t == Trim(text) IN
    IF Len(t) = 3 /\ t[1] = "{" /\ t[2] \in Digits /\ t[3] = "}"
    THEN [kind |-> "object", id |-> t[2]]
    ELSE IF t = <<"n">> THEN [kind |-> "null", id |-> ""]
    ELSE [kind |-> "SyntaxError", id |-> ""]

\* lines 127-136: parse and push; a SyntaxError, or the TypeError of reading
\* log.timestamp of null, is caught and the line skipped
PushParsed(logs, line) ==
    LET log == JsonParse(line) IN
    IF log.kind = "object" THEN Append(logs, [id |-> log.id]) ELSE logs

\* the inner loop, lines 123-137
RECURSIVE ReadLines(_, _, _)
ReadLines(logs, lines, limit) ==
    IF lines = <<>> THEN logs
    ELSE IF Len(logs) >= limit THEN logs
    ELSE IF Trim(Head(lines)) = <<>> THEN ReadLines(logs, Tail(lines), limit)
    ELSE ReadLines(PushParsed(logs, Head(lines)), Tail(lines), limit)

\* the outer loop, lines 115-142: a file that cannot be read is skipped
RECURSIVE ReadFiles(_, _, _, _, _)
ReadFiles(logs, files, dir, limit, F) ==
    IF files = <<>> THEN logs
    ELSE IF Len(logs) >= limit THEN logs
    ELSE IF Fails(F, "read", Head(files)) THEN ReadFiles(logs, Tail(files), dir, limit, F)
    ELSE ReadFiles(ReadLines(logs,
                             Reverse(Split(Trim(Content(dir[Head(files)].lines)), NL)),
                             limit),
                   Tail(files), dir, limit, F)

\* the body of the try block of getRecentLogs: what it returns, or the step
\* that threw, and whether the directory exists afterwards
GetRecentLogsBody(dir, exists, limit, F) ==
    IF Fails(F, "mkdir", DirName)
    THEN [exc |-> Some("mkdir"), logs |-> <<>>, exists |-> exists]
    ELSE IF Fails(F, "readdir", DirName)
    THEN [exc |-> Some("readdir"), logs |-> <<>>, exists |-> TRUE]
    ELSE [exc |-> None,
          logs |-> ReadFiles(<<>>, SortedNewestFirst({n \in DOMAIN dir : IsLogFile(n)}),
                             dir, limit, F),
          exists |-> TRUE]

\* catch (error) { console.error(...); return [] }, lines 145-148
GetRecentLogsCatch(r) ==
    IF r.exc = None THEN r ELSE [exc |-> None, logs |-> <<>>, exists |-> r.exists]

GetRecentLogsOp(dir, exists, limit, F) ==
    GetRecentLogsCatch(GetRecentLogsBody(dir, exists, limit, F))

\* faulty variant: the loop ends after the first file it deletes
RECURSIVE ClearLoop_StopAfterFirst(_, _, _, _)
ClearLoop_StopAfterFirst(dir, files, cutoff, F) ==
    IF files = <<>> THEN [dir |-> dir, exc |-> None]
    ELSE IF ~IsLogFile(Head(files)) THEN ClearLoop_StopAfterFirst(dir, Tail(files), cutoff, F)
    ELSE IF dir[Head(files)].mtime < cutoff
         THEN [dir |-> Remove(dir, {Head(files)}), exc |-> None]
         ELSE ClearLoop_StopAfterFirst(dir, Tail(files), cutoff, F)

\* faulty variant: <= for <
OlderThan_OrEqual(file, cutoff) == file.mtime <= cutoff

\* stats.mtime < cutoffDate
OlderThan(file, cutoff) == file.mtime < cutoff

\* the loop of clearLogs, lines 160-169: a stat or an unlink that fails throws
\* and ends the loop
RECURSIVE ClearLoop(_, _, _, _)
ClearLoop(dir, files, cutoff, F) ==
    IF files = <<>> THEN [dir |-> dir, exc |-> None]
    ELSE IF ~IsLogFile(Head(files)) THEN ClearLoop(dir, Tail(files), cutoff, F)
    ELSE IF Fails(F, "stat", Head(files)) THEN [dir |-> dir, exc |-> Some("stat")]
    ELSE IF OlderThan(dir[Head(files)], cutoff)
         THEN IF Fails(F, "unlink", Head(files))
              THEN [dir |-> dir, exc |-> Some("unlink")]
              ELSE ClearLoop(Remove(dir, {Head(files)}), Tail(files), cutoff, F)
         ELSE ClearLoop(dir, Tail(files), cutoff, F)

\* cutoffDate.setDate(cutoffDate.getDate() - olderThanDays)
CutoffDate(t, olderThanDays) == t - olderThanDays * DayTicks

\* the body of the try block of clearLogs; files is what readdir returns, in
\* the order it returns it; there is no mkdir: readdir of a missing directory
\* throws
ClearLogsBody(dir, exists, olderThanDays, t, files, F) ==
    IF ~exists \/ Fails(F, "readdir", DirName)
    THEN [dir |-> dir, exc |-> Some("readdir")]
    ELSE ClearLoop(dir, files, CutoffDate(t, olderThanDays), F)

\* catch (error) { console.error(...) }, lines 170-172
ClearLogsCatch(r) == [dir |-> r.dir, exc |-> None]

ClearLogsOp(dir, exists, olderThanDays, t, files, F) ==
    ClearLogsCatch(ClearLogsBody(dir, exists, olderThanDays, t, files, F))

\* readdir lists the entries in an order of its own: here by name, ascending
\* or descending
ReaddirOrders(dir) ==
    {SortedNewestFirst(DOMAIN dir), Reverse(SortedNewestFirst(DOMAIN dir))}

(***************************************************************************)
(* The directories getRecentLogs and clearLogs may find.                   *)
(***************************************************************************)
MaxLimit == 4
MaxDays == 2
MaintTicks == 2

TextLine(text) == [id |-> 0, bytes |-> Len(text) + 1, text |-> text]
Rec(d) == TextLine(<<"{", d, "}">>)

\* three records
Full(a, b, c) == <<Rec(a), Rec(b), Rec(c)>>
\* a line that is not JSON between two records
Torn(a, b) == <<Rec(a), TextLine(<<"x">>), Rec(b)>>
\* a blank line, a record, an empty line, null, a record with spaces around it
Odd(a, b) ==
    <<TextLine(<<" ">>), Rec(a), TextLine(<<>>), TextLine(<<"n">>),
      TextLine(<<" ", "{", b, "}", " ">>)>>

Yesterday == LogName(StartDay - 1, <<>>)
Archived == LogName(StartDay, <<StartTick - 1>>)
Today == LogName(StartDay, <<>>)

\* the contents a file may have, or <<>> when the file is absent
Contents(a, b, c) ==
    {None, Some(Full(a, b, c)), Some(Torn(a, b)), Some(Odd(a, b)), Some(<<>>)}

MaintDir(ya, ar, to) ==
    LET present == {x \in {<<Yesterday, ya, StartTick - 2>>,
                           <<Archived, ar, StartTick - 1>>,
                           <<Today, to, StartTick>>} : x[2] # None}
        entry(n) == CHOOSE x \in present : x[1] = n
    IN  Merge(Others,
              [n \in {x[1] : x \in present} |->
                  [lines |-> entry(n)[2][1], mtime |-> entry(n)[3]]])

MaintDirs ==
    {MaintDir(ya, ar, to) :
        ya \in Contents("1", "2", "3"), ar \in Contents("4", "5", "6"),
        to \in Contents("7", "8", "9")}

MaintInit ==
    /\ \/ dirExists = FALSE /\ fs = Remove(Others, DOMAIN Others) /\ unreadable = {}
       \/ /\ dirExists = TRUE
          /\ fs \in MaintDirs
          /\ \E U \in SUBSET {n \in DOMAIN fs : IsLogFile(n)} :
                Cardinality(U) <= 1 /\ unreadable = U
    /\ now = StartTick
    /\ written = 0
    /\ lastWrite = None
    /\ lastRead = None
    /\ lastClear = None

\* getRecentLogs (part_002:102-149)
GetRecentLogs(limit) ==
    /\ LET r == GetRecentLogsOp(fs, dirExists, limit,
                                {Failure("read", n) : n \in unreadable})
       IN  /\ dirExists' = r.exists
           /\ lastRead' = Some([limit |-> limit, logs |-> r.logs, threw |-> r.exc # None,
                                dir |-> fs, unreadable |-> unreadable])
    /\ lastClear' = None
    /\ UNCHANGED <<fs, now, written, lastWrite, unreadable>>
    /\ UNCHANGED <<retryVars, clsVars, faultVars, facadeVars, healthVars, obsVars>>

\* clearLogs (part_002:154-173)
ClearLogs(olderThanDays, files) ==
    /\ LET r == ClearLogsOp(fs, dirExists, olderThanDays, now, files, {})
       IN  /\ fs' = r.dir
           /\ lastClear' = Some([days |-> olderThanDays, time |-> now, hadDir |-> dirExists,
                                 pre |-> fs, threw |-> r.exc # None,
                                 removed |-> DOMAIN fs \ DOMAIN r.dir,
                                 again |-> /\ lastClear # None
                                           /\ lastClear[1].days = olderThanDays,
                                 prior |-> IF lastClear # None
                                           THEN lastClear[1].removed ELSE {}])
    /\ lastRead' = None
    /\ UNCHANGED <<dirExists, now, written, lastWrite, unreadable>>
    /\ UNCHANGED <<retryVars, clsVars, faultVars, facadeVars, healthVars, obsVars>>

\* time passes
MaintTick ==
    /\ now < StartTick + MaintTicks
    /\ now' = now + 1
    /\ lastRead' = None
    /\ lastClear' = None
    /\ UNCHANGED <<dirExists, fs, written, lastWrite, unreadable>>
    /\ UNCHANGED <<retryVars, clsVars, faultVars, facadeVars, healthVars, obsVars>>

NextMaint ==
    \/ \E limit \in 0..MaxLimit : GetRecentLogs(limit)
    \/ \E d \in 0..MaxDays, files \in ReaddirOrders(fs) : ClearLogs(d, files)
    \/ MaintTick

InitMaint == RetryIdle /\ ClsIdle /\ MaintInit /\ FaultIdle /\ FacadeIdle /\ HealthIdle /\ ObsIdle

SpecMaint == InitMaint /\ [][NextMaint]_vars

(***************************************************************************)
(* Reading the last getRecentLogs call: the record lines of the readable   *)
(* log files it found, and their newest-first order.                       *)
(***************************************************************************)
\* the text is one object literal, with nothing but white space around it
IsRecordText(t) ==
    \E a \in 0..Len(t) :
        /\ Len(t) >= a + 3
        /\ \A i \in 1..a : t[i] \in Whitespace
        /\ t[a + 1] = "{" /\ t[a + 2] \in Digits /\ t[a + 3] = "}"
        /\ \A i \in (a + 4)..Len(t) : t[i] \in Whitespace

RecordOf(t) == [id |-> CHOOSE d \in Digits : \E i \in DOMAIN t : t[i] = d]

\* <<file, line number>> of every record line of a readable log file
RecordLines(r) ==
    {x \in UNION {{<<n, i>> : i \in DOMAIN r.dir[n].lines} : n \in LogFilesOf(r.dir) \ r.unreadable} :
        IsRecordText(r.dir[x[1]].lines[x[2]].text)}

\* x is read before y: in a file of greater name, or later in the same file
ReadBefore(x, y) == NameLess(y[1], x[1]) \/ (x[1] = y[1] /\ x[2] > y[2])

ReadRank(x, r) == Cardinality({y \in RecordLines(r) : ReadBefore(y, x)}) + 1

(***************************************************************************)
(* C11. getRecentLogs(limit) returns at most limit records, newest-first   *)
(* (files in descending name order, the lines of a file last to first):    *)
(* exactly the first limit record lines in that order; malformed lines and *)
(* unreadable files are skipped, do not count toward limit, and the call   *)
(* does not fail.                                                          *)
(***************************************************************************)
C11_RecentLogs ==
    lastRead # None =>
        LET r == lastRead[1] IN
        /\ ~r.threw
        /\ Len(r.logs) <= r.limit
        /\ Len(r.logs) = Min(r.limit, Cardinality(RecordLines(r)))
        /\ \A x \in RecordLines(r) :
              ReadRank(x, r) <= r.limit =>
                  r.logs[ReadRank(x, r)] = RecordOf(r.dir[x[1]].lines[x[2]].text)

\* today's file is unreadable; the archive holds a malformed line between two
\* records; the third record comes from the end of yesterday's file
C11_Witness ==
    /\ lastRead # None
    /\ lastRead[1].limit = 3
    /\ lastRead[1].unreadable = {Today}
    /\ Archived \in DOMAIN lastRead[1].dir
    /\ lastRead[1].dir[Archived].lines = Torn("4", "5")
    /\ lastRead[1].logs = <<[id |-> "5"], [id |-> "4"], [id |-> "3"]>>

\* blank lines, null and padded records: two records out of five lines
C11_WitnessOddLines ==
    /\ lastRead # None
    /\ lastRead[1].limit = MaxLimit
    /\ DOMAIN lastRead[1].dir = {Today, OtherName}
    /\ lastRead[1].dir[Today].lines = Odd("7", "8")
    /\ lastRead[1].logs = <<[id |-> "8"], [id |-> "7"]>>

C13_ClearLogsFrame ==
    lastClear # None =>
        LET w == lastClear[1]
            cutoff == w.time - w.days * DayTicks
            old == {n \in DOMAIN w.pre : n.kind = "log" /\ w.pre[n].mtime < cutoff}
        IN
        /\ \A n \in old : n \notin DOMAIN fs
        /\ \A n \in DOMAIN w.pre \ old : n \in DOMAIN fs /\ fs[n] = w.pre[n]
        /\ DOMAIN fs \subseteq DOMAIN w.pre

\* a file older than the cutoff is gone, a file modified exactly at the cutoff
\* and the entry of another name, older than both, are in place
C13_Witness ==
    /\ lastClear # None
    /\ lastClear[1].removed # {}
    /\ \E n \in LogFilesOf(fs) :
          fs[n].mtime = lastClear[1].time - lastClear[1].days * DayTicks
    /\ OtherName \in DOMAIN fs
    /\ fs[OtherName].mtime < lastClear[1].time - lastClear[1].days * DayTicks

(***************************************************************************)
(* logToFile and rotateLogs (part_002:40-97) when file-system calls may    *)
(* fail.  Every operation yields exc, the step whose exception left it, or *)
(* None when it completed normally.                                        *)
(***************************************************************************)
\* lines 77-79: unlink(...).catch(() => {}), a file that cannot be deleted stays
RECURSIVE UnlinkEach(_, _, _)
UnlinkEach(dir, files, F) ==
    IF files = <<>> THEN dir
    ELSE IF Fails(F, "unlink", Head(files)) THEN UnlinkEach(dir, Tail(files), F)
    ELSE UnlinkEach(Remove(dir, {Head(files)}), Tail(files), F)

\* lines 83-92: a stat or a rename that fails throws and ends the loop
RECURSIVE StatAndRename(_, _, _, _)
StatAndRename(dir, files, t, F) ==
    IF files = <<>> THEN [dir |-> dir, exc |-> None]
    ELSE IF Head(files) \notin DOMAIN dir \/ Fails(F, "stat", Head(files))
    THEN [dir |-> dir, exc |-> Some("stat")]
    ELSE IF Oversized(dir[Head(files)])
    THEN IF Fails(F, "rename", Head(files))
         THEN [dir |-> dir, exc |-> Some("rename")]
         ELSE StatAndRename(Rename(dir, Head(files), ArchiveName(Head(files), t)),
                            Tail(files), t, F)
    ELSE StatAndRename(dir, Tail(files), t, F)

\* the body of the try block of rotateLogs
RotateLogsBody(dir, t, F) ==
    IF Fails(F, "readdir", DirName) THEN [dir |-> dir, exc |-> Some("readdir")]
    ELSE LET logFiles == SortedNewestFirst({n \in DOMAIN dir : IsLogFile(n)})
         IN  StatAndRename(UnlinkEach(dir, FilesToDelete(logFiles), F),
                           FilesToCheck(logFiles), t, F)

\* catch (error) { console.error('Failed to rotate logs:', error) }, lines 93-96
RotateLogsCatch(r) == [dir |-> r.dir, exc |-> None]

RotateLogsOp(dir, t, F) == RotateLogsCatch(RotateLogsBody(dir, t, F))

\* the body of the try block of logToFile
LogToFileBody(dir, exists, line, t, F) ==
    LET name == LogName(Day(t), <<>>) IN
    IF Fails(F, "mkdir", DirName)
    THEN [dir |-> dir, exists |-> exists, exc |-> Some("mkdir"), rotation |-> None]
    ELSE IF Fails(F, "write", name)
    THEN [dir |-> dir, exists |-> TRUE, exc |-> Some("write"), rotation |-> None]
    ELSE LET body == RotateLogsBody(WriteFileAppend(dir, name, line, t), t, F)
             rot  == RotateLogsCatch(body)
         IN  [dir |-> rot.dir, exists |-> TRUE, exc |-> rot.exc,
              rotation |-> Some([failedAt |-> body.exc, exc |-> rot.exc])]

\* faulty variant: no catch, the exception leaves logToFile
LogToFileCatch_Rethrow(r) == r

\* catch (error) { console.error('Failed to write error log:', error) }, lines 57-60
LogToFileCatch(r) == [r EXCEPT !.exc = None]

LogToFileOp(dir, exists, line, t, F) ==
    LogToFileCatch(LogToFileBody(dir, exists, line, t, F))

(***************************************************************************)
(* One call of the logger, with any one file-system call failing, or all   *)
(* of them.                                                                *)
(***************************************************************************)
DigitChars == <<"1", "2", "3", "4", "5", "6", "7", "8", "9">>
\* the line logToFile writes for record k: its JSON text and its length
RecordLine(k, bytes) ==
    [id |-> k, bytes |-> bytes, text |-> <<"{", DigitChars[((k - 1) % 9) + 1], "}">>]

\* one file per day for the k days before the first one, each with one record
OldTextFiles(k) ==
    [n \in {LogName(d, <<>>) : d \in (StartDay - k)..(StartDay - 1)} |->
        [lines |-> <<RecordLine(StartDay - n.date, 100)>>, mtime |-> n.date * DayTicks]]

\* today's file, short of the ceiling by the bytes given
TodayText(short) ==
    [n \in {Today} |-> [lines |-> <<RecordLine(9, maxLogSize - short)>>, mtime |-> StartTick]]

\* today's file is absent, 200 bytes short of the ceiling, or 50 bytes over it
\* (an earlier rename failed)
FaultDirs ==
    {Merge(Others, Merge(OldTextFiles(k), today)) :
        k \in {0, 1, 10, 11},
        today \in {TodayText(200), TodayText(0 - 50), Remove(TodayText(200), {Today})}}

\* the calls that may fail on this directory at this time
Failures(dir, t) ==
    {Failure("mkdir", DirName), Failure("readdir", DirName)}
    \cup {Failure(step, n) : step \in {"write", "stat", "unlink", "rename", "read"},
                             n \in DOMAIN dir \cup {LogName(Day(t), <<>>)}}

\* no call fails, one call fails, or every call fails
FailureSets(dir, t) ==
    {{}} \cup {{f} : f \in Failures(dir, t)} \cup {Failures(dir, t)}

FaultInit ==
    /\ \/ dirExists = FALSE /\ fs = Remove(Others, DOMAIN Others)
       \/ dirExists = TRUE /\ fs \in FaultDirs
    /\ now = StartTick
    /\ written = 0
    /\ lastWrite = None
    /\ lastCall = None

Call(op, F, body, after, logs, limit) ==
    [op |-> op, F |-> F, failedAt |-> body.exc, threw |-> after.exc # None,
     logs |-> logs, limit |-> limit, dir |-> fs,
     unreadable |-> {n \in DOMAIN fs : Fails(F, "read", n)}]

\* logToFile with the rotation pass it ends with
FaultyLogToFile(bytes, F) ==
    /\ lastCall = None
    /\ LET line  == RecordLine(written + 1, bytes)
           body  == LogToFileBody(fs, dirExists, line, now, F)
           after == LogToFileOp(fs, dirExists, line, now, F)
       IN  /\ dirExists' = after.exists
           /\ fs' = after.dir
           /\ lastCall' = Some(Call("logToFile", F,
                                    IF body.rotation # None /\ body.exc = None
                                    THEN [exc |-> body.rotation[1].failedAt] ELSE body,
                                    IF body.rotation # None /\ body.rotation[1].exc # None
                                    THEN [exc |-> body.rotation[1].exc] ELSE after,
                                    <<>>, 0))
    /\ UNCHANGED <<now, written, lastWrite>>
    /\ UNCHANGED <<retryVars, clsVars, maintVars, facadeVars, healthVars, obsVars>>

FaultyGetRecentLogs(limit, F) ==
    /\ lastCall = None
    /\ LET body  == GetRecentLogsBody(fs, dirExists, limit, F)
           after == GetRecentLogsOp(fs, dirExists, limit, F)
       IN  /\ dirExists' = after.exists
           /\ lastCall' = Some(Call("getRecentLogs", F, body, after, after.logs, limit))
    /\ UNCHANGED <<fs, now, written, lastWrite>>
    /\ UNCHANGED <<retryVars, clsVars, maintVars, facadeVars, healthVars, obsVars>>

FaultyClearLogs(olderThanDays, files, F) ==
    /\ lastCall = None
    /\ LET body  == ClearLogsBody(fs, dirExists, olderThanDays, now, files, F)
           after == ClearLogsOp(fs, dirExists, olderThanDays, now, files, F)
       IN  /\ fs' = after.dir
           /\ lastCall' = Some(Call("clearLogs", F, body, after, <<>>, 0))
    /\ UNCHANGED <<dirExists, now, written, lastWrite>>
    /\ UNCHANGED <<retryVars, clsVars, maintVars, facadeVars, healthVars, obsVars>>

NextFault ==
    \/ \E bytes \in {100, 300}, F \in FailureSets(fs, now) : FaultyLogToFile(bytes, F)
    \/ \E limit \in {0, 2, MaxLimit}, F \in FailureSets(fs, now) : FaultyGetRecentLogs(limit, F)
    \/ \E d \in {0, MaxDays}, files \in ReaddirOrders(fs), F \in FailureSets(fs, now) :
          FaultyClearLogs(d, files, F)

InitFault == RetryIdle /\ ClsIdle /\ FaultInit /\ MaintIdle /\ FacadeIdle /\ HealthIdle /\ ObsIdle

SpecFault == InitFault /\ [][NextFault]_vars

(***************************************************************************)
(* C14. logToFile, the rotation pass, getRecentLogs and clearLogs never    *)
(* throw into their caller: whatever file-system call fails (mkdir, write, *)
(* readdir, stat, unlink, rename, read), the call completes normally, and  *)
(* getRecentLogs returns the empty list when mkdir or readdir failed and   *)
(* the records of the files it could read otherwise.                       *)
(***************************************************************************)
C14_NeverThrows ==
    lastCall # None =>
        LET c == lastCall[1] IN
        /\ ~c.threw
        /\ c.op = "getRecentLogs" =>
              IF Fails(c.F, "mkdir", DirName) \/ Fails(c.F, "readdir", DirName)
              THEN c.logs = <<>>
              ELSE /\ Len(c.logs) = Min(c.limit, Cardinality(RecordLines(c)))
                   /\ \A i \in DOMAIN c.logs :
                         \E x \in RecordLines(c) :
                             c.logs[i] = RecordOf(c.dir[x[1]].lines[x[2]].text)

\* the rename of the rotation pass failed and logToFile returned; the line was
\* written
C14_Witness ==
    /\ lastCall # None
    /\ lastCall[1].op = "logToFile"
    /\ lastCall[1].failedAt = Some("rename")
    /\ ~lastCall[1].threw
    /\ Today \in DOMAIN fs /\ Oversized(fs[Today])

C14_WitnessWrite ==
    /\ lastCall # None
    /\ lastCall[1].op = "logToFile"
    /\ lastCall[1].failedAt \in {Some("mkdir"), Some("write")}
    /\ fs = lastCall[1].dir

C14_WitnessRead ==
    /\ lastCall # None
    /\ lastCall[1].op = "getRecentLogs"
    /\ lastCall[1].failedAt = None
    /\ lastCall[1].unreadable = {Today}
    /\ Len(lastCall[1].logs) = 2

C14_WitnessClear ==
    /\ lastCall # None
    /\ lastCall[1].op = "clearLogs"
    /\ lastCall[1].failedAt = Some("unlink")
    /\ Cardinality(DOMAIN lastCall[1].dir \ DOMAIN fs) >= 1
    /\ \E n \in LogFilesOf(fs) : fs[n].mtime < CutoffDate(StartTick, MaxDays)

(***************************************************************************)
(* The log dispatch facade: ErrorLogger.log (part_001:127-203),            *)
(* ServerErrorLogger.log (part_002:201-246) and Logger.log with            *)
(* logError / logWarn / logInfo (part_000:219-328).                        *)
(*                                                                         *)
(* A call is given a level, a context (none, one that JSON.stringify       *)
(* serializes, or one it throws on, such as a circular structure) and the  *)
(* failures it will meet.  What the call does is the sequence of its       *)
(* outputs: [type, ok] with type "console" (the record on the console),    *)
(* "http" (a POST to /api/errors), "logToFile", "webhook", and "fallback"  *)
(* (the console.error of a catch handler).                                 *)
(***************************************************************************)
Modes == {"development", "production", "test"}
Contexts == {"none", "plain", "circular"}
FacadeLevels == {"error", "warn", "info"}
FacadeFailures == [http : BOOLEAN, file : BOOLEAN, webhook : BOOLEAN]

Out(type, ok) == [type |-> type, ok |-> ok]

\* JSON.stringify throws a TypeError on a circular structure
Serializes(context) == context # "circular"

\* fetch('/api/errors', ...).catch(err => console.error(...))
HttpSubmit(faults) ==
    IF faults.http THEN <<Out("http", FALSE), Out("fallback", TRUE)>>
    ELSE <<Out("http", TRUE)>>

\* await this.logToFile(errorLog): the record is serialized and written inside
\* logToFile's own try block, so the call returns whatever fails
LogToFileCall(context, faults) ==
    IF ~Serializes(context) \/ faults.file
    THEN <<Out("logToFile", FALSE), Out("fallback", TRUE)>>
    ELSE <<Out("logToFile", TRUE)>>

\* sendToExternalService of both file loggers (part_001:176-203): the
\* serialization and the fetch are inside the try block
SendToExternalService(env, context, faults) ==
    IF ~env.webhook THEN <<>>
    ELSE IF ~Serializes(context) THEN <<Out("fallback", TRUE)>>
    ELSE IF faults.webhook THEN <<Out("webhook", FALSE), Out("fallback", TRUE)>>
    ELSE <<Out("webhook", TRUE)>>

\* console.error(`[${level.toUpperCase()}] ${message}`, error, context)
Mirror(env) == IF env.mode = "development" THEN <<Out("console", TRUE)>> ELSE <<>>

\* ErrorLogger.log (part_001:127-171): in production in a browser the body of
\* the request is serialized before fetch is called, outside any try block
ErrorLoggerLog(env, context, faults) ==
    IF env.mode = "production"
    THEN IF env.window
         THEN IF ~Serializes(context)
              THEN [events |-> Mirror(env), threw |-> TRUE]
              ELSE [events |-> Mirror(env) \o HttpSubmit(faults)
                                   \o SendToExternalService(env, context, faults),
                    threw |-> FALSE]
         ELSE [events |-> Mirror(env) \o LogToFileCall(context, faults)
                              \o SendToExternalService(env, context, faults),
               threw |-> FALSE]
    ELSE [events |-> Mirror(env) \o SendToExternalService(env, context, faults),
          threw |-> FALSE]

\* ServerErrorLogger.log (part_002:201-221)
ServerErrorLoggerLog(env, context, faults) ==
    [events |-> Mirror(env)
                \o (IF env.mode = "production" THEN LogToFileCall(context, faults) ELSE <<>>)
                \o SendToExternalService(env, context, faults),
     threw |-> FALSE]

\* Logger.sendToExternalService (part_000:258-295), not awaited by Logger.log;
\* everything in it is inside its try block
LoggerSendToExternalService(env, context, faults) ==
    IF ~env.window THEN ServerErrorLoggerLog(env, context, faults).events
    ELSE HttpSubmit(faults)

\* Logger.log (part_000:219-256): formatLog (development) and
\* console.log(JSON.stringify(entry)) (otherwise) serialize the context outside
\* any try block
LoggerDispatch(env, level, context, faults) ==
    IF ~ShouldLog(level) THEN [events |-> <<>>, threw |-> FALSE]
    ELSE IF ~Serializes(context) THEN [events |-> <<>>, threw |-> TRUE]
    ELSE IF env.mode # "development" /\ level = "error"
    THEN [events |-> <<Out("console", TRUE)>>
                     \o LoggerSendToExternalService(env, context, faults),
          threw |-> FALSE]
    ELSE [events |-> <<Out("console", TRUE)>>, threw |-> FALSE]

FacadeInit ==
    /\ config = RETRY_CONFIGS.api
    /\ logLevel \in LogLevels
    /\ pc = "returned"
    /\ attempt = 0
    /\ lastError = None
    /\ calls = 0
    /\ inFlight = 0
    /\ timer = None
    /\ events = <<>>
    /\ outcome = [kind |-> "pending", value |-> None]
    /\ facadeEnv \in [mode : Modes, window : BOOLEAN, webhook : BOOLEAN]
    /\ facadeCall = None

FacadeCall(fn, level, context, faults, r) ==
    [fn |-> fn, level |-> level, context |-> context, faults |-> faults,
     events |-> r.events, threw |-> r.threw]

\* errorLogger.log(message, error, context, level)
CallErrorLogger(level, context, faults) ==
    /\ facadeCall' = Some(FacadeCall("ErrorLogger.log", level, context, faults,
                                     ErrorLoggerLog(facadeEnv, context, faults)))
    /\ UNCHANGED <<facadeEnv, retryVars, clsVars, logVars, maintVars, faultVars, healthVars, obsVars>>

\* serverErrorLogger.log(message, error, context, level)
CallServerErrorLogger(level, context, faults) ==
    /\ facadeCall' = Some(FacadeCall("ServerErrorLogger.log", level, context, faults,
                                     ServerErrorLoggerLog(facadeEnv, context, faults)))
    /\ UNCHANGED <<facadeEnv, retryVars, clsVars, logVars, maintVars, faultVars, healthVars, obsVars>>

\* logError / logWarn / logInfo (message, context)
CallLogger(level, context, faults) ==
    /\ facadeCall' = Some(FacadeCall("Logger.log", level, context, faults,
                                     LoggerDispatch(facadeEnv, level, context, faults)))
    /\ UNCHANGED <<facadeEnv, retryVars, clsVars, logVars, maintVars, faultVars, healthVars, obsVars>>

NextFacade ==
    \/ \E l \in FacadeLevels, c \in Contexts, f \in FacadeFailures : CallErrorLogger(l, c, f)
    \/ \E l \in FacadeLevels, c \in Contexts, f \in FacadeFailures : CallServerErrorLogger(l, c, f)
    \/ \E l \in FacadeLevels, c \in Contexts, f \in FacadeFailures : CallLogger(l, c, f)

InitFacade == FacadeInit /\ ClsIdle /\ LogIdle /\ MaintIdle /\ FaultIdle /\ HealthIdle /\ ObsIdle

SpecFacade == InitFacade /\ [][NextFacade]_vars

\* the number of outputs of a type among the outputs of the last call
CountOf(type) ==
    Cardinality({i \in DOMAIN facadeCall[1].events : facadeCall[1].events[i].type = type})

(***************************************************************************)
(* C15. The log dispatch facade never lets a logging failure reach its     *)
(* caller: log(message, error, context, level) of both loggers and         *)
(* logError / logWarn / logInfo complete normally whatever fails inside    *)
(* them (record serialization, HTTP submission to /api/errors, file write, *)
(* webhook POST).                                                          *)
(***************************************************************************)
C15_FacadeNeverThrows ==
    facadeCall # None => ~facadeCall[1].threw

(***************************************************************************)
(* C16. For every call of the facade's log the transport is determined by  *)
(* mode and execution context: in production in a browser exactly one HTTP *)
(* submission to /api/errors and no file write; in production with file    *)
(* access exactly one logToFile and no HTTP submission; in development the *)
(* record on the console and neither a file write nor an HTTP submission.  *)
(***************************************************************************)
C16_TransportByMode ==
    (facadeCall # None /\ facadeCall[1].fn = "ErrorLogger.log") =>
        /\ (facadeEnv.mode = "production" /\ facadeEnv.window) =>
              CountOf("http") = 1 /\ CountOf("logToFile") = 0
        /\ (facadeEnv.mode = "production" /\ ~facadeEnv.window) =>
              CountOf("logToFile") = 1 /\ CountOf("http") = 0
        /\ facadeEnv.mode = "development" =>
              CountOf("console") = 1 /\ CountOf("logToFile") = 0 /\ CountOf("http") = 0

(***************************************************************************)
(* The health check aggregator: HealthChecker (monitoring.ts:42-296).      *)
(*                                                                         *)
(* A HealthCheck is [name, status, error]: error is the captured error of  *)
(* an 'unhealthy' probe (the step or call that failed), or None.           *)
(* runHealthChecks has called its four probes; each probe settles at a     *)
(* time of its own, and Promise.all resolves once the four have settled.   *)
(***************************************************************************)
ProbeOrder == <<"Environment", "File System", "GitHub API", "Email Service">>
Probes == Range(ProbeOrder)

requiredEnvVars ==
    {"NEXTAUTH_SECRET", "GOOGLE_CLIENT_ID", "GOOGLE_CLIENT_SECRET", "GITMESH_CE_ADMIN_EMAILS"}
optionalEnvVars == {"GITHUB_TOKEN", "GITHUB_REPO", "SENDGRID_API_KEY", "FROM_EMAIL"}

Check(name, status, error) == [name |-> name, status |-> status, error |-> error]

\* checkEnvironment (monitoring.ts:182-232); absent: the variables not set
CheckEnvironment(absent) ==
    LET missing  == requiredEnvVars \cap absent
        optional == optionalEnvVars \cap absent
    IN  IF missing # {} THEN Check("Environment", "unhealthy", None)
        ELSE IF optional # {} THEN Check("Environment", "degraded", None)
        ELSE Check("Environment", "healthy", None)

\* the steps of the try block of checkFileSystem, in order
FsSteps == <<"write", "read", "parse", "unlink">>

\* faulty variant: the failure of unlink is not caught
Swallowed_Nothing(step) == FALSE

\* fs.unlink(testFile).catch(() => {}): the failure of the cleanup is ignored
Swallowed(step) == step = "unlink"

\* the first step that throws into the catch block of checkFileSystem, if any
RECURSIVE FirstThrown(_, _)
FirstThrown(steps, failing) ==
    IF steps = <<>> THEN None
    ELSE IF Head(steps) \in failing /\ ~Swallowed(Head(steps)) THEN Some(Head(steps))
    ELSE FirstThrown(Tail(steps), failing)

\* checkFileSystem (monitoring.ts:132-177); failing: the steps that fail
CheckFileSystem(failing) ==
    LET error == FirstThrown(FsSteps, failing) IN
    IF error = None THEN Check("File System", "healthy", None)
    ELSE Check("File System", "unhealthy", error)

\* checkGitHub (monitoring.ts:54-87); github: what the client does
CheckGitHub(github) ==
    IF github = "success" THEN Check("GitHub API", "healthy", None)
    ELSE IF github = "failure" THEN Check("GitHub API", "unhealthy", Some("result.error"))
    ELSE Check("GitHub API", "unhealthy", Some(github))

\* checkEmailService (monitoring.ts:92-127): the try block only obtains the
\* service object (getEmailService); nothing is sent to the email provider, so
\* whether the provider can be reached is not an input of the probe
CheckEmailService(email) ==
    IF email = "initialized" THEN Check("Email Service", "healthy", None)
    ELSE Check("Email Service", "unhealthy", Some(email))

ProbeResult(p, in) ==
    CASE p = "Environment"   -> CheckEnvironment(in.absent)
      [] p = "File System"   -> CheckFileSystem(in.fsFails)
      [] p = "GitHub API"    -> CheckGitHub(in.github)
      [] p = "Email Service" -> CheckEmailService(in.email)

\* faulty variant: 'degraded' is looked at first
Overall_DegradedFirst(checks) ==
    IF \E i \in DOMAIN checks : checks[i].status = "degraded" THEN "degraded"
    ELSE IF \E i \in DOMAIN checks : checks[i].status = "unhealthy" THEN "unhealthy"
    ELSE "healthy"

\* lines 250-259
Overall(checks) ==
    LET hasUnhealthy == \E i \in DOMAIN checks : checks[i].status = "unhealthy"
        hasDegraded  == \E i \in DOMAIN checks : checks[i].status = "degraded"
    IN  IF hasUnhealthy THEN "unhealthy"
        ELSE IF hasDegraded THEN "degraded"
        ELSE "healthy"

\* faulty variant: the results in the order the probes settled
JoinedChecks_InSettleOrder(probe, order) == [i \in DOMAIN order |-> probe[order[i]][1]]

\* the value of Promise.all: the results in the order of the array
JoinedChecks(probe, order) == [i \in DOMAIN ProbeOrder |-> probe[ProbeOrder[i]][1]]

\* the try block of runHealthChecks once Promise.all has resolved; tryThrows:
\* an exception is raised between the join and the return
HealthBody(checks, tryThrows) ==
    IF tryThrows
    THEN [exc |-> Some("Error"), overall |-> "", checks |-> <<>>]
    ELSE [exc |-> None, overall |-> Overall(checks), checks |-> checks]

\* faulty variant: no catch, the exception leaves runHealthChecks
HealthCatch_Rethrow(r) == r

\* the catch block, lines 279-295
HealthCatch(r) ==
    IF r.exc = None THEN r
    ELSE [exc |-> None, overall |-> "unhealthy",
          checks |-> <<Check("Health Check System", "unhealthy", r.exc)>>]

EnvAbsentSets ==
    {{}, {"GITHUB_TOKEN"}, {"FROM_EMAIL", "GITHUB_REPO"}, {"NEXTAUTH_SECRET"},
     {"GOOGLE_CLIENT_ID", "SENDGRID_API_KEY"}}
FsFailingSets ==
    {{}, {"write"}, {"read"}, {"parse"}, {"unlink"}, {"read", "unlink"}, {"write", "parse"}}
GitHubOutcomes == {"success", "failure", "testConnection throws", "createGitHubClient throws"}
EmailOutcomes == {"initialized", "getEmailService throws"}

HealthInit ==
    /\ hInput \in [absent : EnvAbsentSets, fsFails : FsFailingSets, github : GitHubOutcomes,
                   email : EmailOutcomes, emailReachable : BOOLEAN, tryThrows : BOOLEAN]
    /\ hProbe = [p \in Probes |-> None]
    /\ hOrder = <<>>
    /\ hSnapshot = None

\* a probe's promise settles with the probe's result
ProbeSettles(p) ==
    /\ hSnapshot = None
    /\ hProbe[p] = None
    /\ hProbe' = [hProbe EXCEPT ![p] = Some(ProbeResult(p, hInput))]
    /\ hOrder' = Append(hOrder, p)
    /\ UNCHANGED <<hInput, hSnapshot>>
    /\ UNCHANGED <<retryVars, clsVars, logVars, maintVars, faultVars, facadeVars, obsVars>>

\* Promise.all resolves; runHealthChecks reduces and returns (lines 250-295)
Join ==
    /\ hSnapshot = None
    /\ \A p \in Probes : hProbe[p] # None
    /\ LET body == HealthBody(JoinedChecks(hProbe, hOrder), hInput.tryThrows)
           r    == HealthCatch(body)
       IN  hSnapshot' = Some([threw |-> r.exc # None, failed |-> body.exc # None,
                              overall |-> r.overall, checks |-> r.checks])
    /\ UNCHANGED <<hInput, hProbe, hOrder>>
    /\ UNCHANGED <<retryVars, clsVars, logVars, maintVars, faultVars, facadeVars, obsVars>>

NextHealth ==
    \/ \E p \in Probes : ProbeSettles(p)
    \/ Join

InitHealth == RetryIdle /\ ClsIdle /\ LogIdle /\ MaintIdle /\ FaultIdle /\ FacadeIdle /\ HealthInit /\ ObsIdle

SpecHealth == InitHealth /\ [][NextHealth]_vars

StatusesOf(checks) == {checks[i].status : i \in DOMAIN checks}

(***************************************************************************)
(* C17. The overall status of the snapshot is 'unhealthy' iff at least one *)
(* check is 'unhealthy', 'degraded' iff none is 'unhealthy' and at least   *)
(* one is 'degraded', 'healthy' iff all are 'healthy'; the reduction gives *)
(* the same result for every permutation of the checks.                    *)
(***************************************************************************)
C17_OverallReduction ==
    hSnapshot # None =>
        LET h  == hSnapshot[1]
            st == StatusesOf(h.checks)
        IN
        /\ h.overall = "unhealthy" <=> "unhealthy" \in st
        /\ h.overall = "degraded" <=> ("unhealthy" \notin st /\ "degraded" \in st)
        /\ h.overall = "healthy" <=> st \subseteq {"healthy"}
        /\ \A perm \in Permutations(DOMAIN h.checks) :
              Overall([i \in DOMAIN h.checks |-> h.checks[perm[i]]]) = h.overall

\* one check is 'degraded', another 'unhealthy': the snapshot is 'unhealthy'
C17_Witness ==
    /\ hSnapshot # None
    /\ Len(hSnapshot[1].checks) = 4
    /\ hSnapshot[1].checks[1].status = "degraded"
    /\ hSnapshot[1].checks[4].status = "unhealthy"
    /\ hSnapshot[1].checks[2].status = "healthy"
    /\ hSnapshot[1].overall = "unhealthy"

C17_WitnessDegraded ==
    /\ hSnapshot # None
    /\ StatusesOf(hSnapshot[1].checks) = {"healthy", "degraded"}
    /\ hSnapshot[1].overall = "degraded"

(***************************************************************************)
(* C18. runHealthChecks never throws: when something fails inside the      *)
(* aggregation it returns a snapshot whose overall status is 'unhealthy'   *)
(* and whose checks are exactly one 'unhealthy' check describing the       *)
(* failure.                                                                *)
(***************************************************************************)
C18_HealthNeverThrows ==
    hSnapshot # None =>
        LET h == hSnapshot[1] IN
        /\ ~h.threw
        /\ h.failed =>
              /\ h.overall = "unhealthy"
              /\ Len(h.checks) = 1
              /\ h.checks[1].name = "Health Check System"
              /\ h.checks[1].status = "unhealthy"
              /\ h.checks[1].error # None

\* the four probes were healthy, the aggregation failed
C18_Witness ==
    /\ hSnapshot # None
    /\ hSnapshot[1].failed
    /\ ~hSnapshot[1].threw
    /\ \A p \in Probes : hProbe[p][1].status = "healthy"
    /\ hSnapshot[1].overall = "unhealthy"

(***************************************************************************)
(* C19. runHealthChecks reduces only after its four probes have settled:   *)
(* for every order in which they settle, and whichever probes fail inside, *)
(* the snapshot of a run whose aggregation did not fail holds exactly four *)
(* checks, one per probe, in the order Environment, File System, GitHub    *)
(* API, Email Service; the exception of a probe is that probe's            *)
(* 'unhealthy' check and the other probes' checks are there as well.       *)
(***************************************************************************)
C19_FanOutJoin ==
    hSnapshot # None =>
        LET h == hSnapshot[1] IN
        /\ \A p \in Probes : hProbe[p] # None
        /\ Len(hOrder) = 4 /\ Range(hOrder) = Probes
        /\ ~h.failed =>
              /\ Len(h.checks) = 4
              /\ \A i \in 1..4 : h.checks[i].name = ProbeOrder[i]
              /\ \A i \in 1..4 : h.checks[i] = ProbeResult(ProbeOrder[i], hInput)
              /\ hInput.github \in {"testConnection throws", "createGitHubClient throws"} =>
                    h.checks[3].status = "unhealthy" /\ h.checks[3].error = Some(hInput.github)
              /\ hInput.email = "getEmailService throws" =>
                    h.checks[4].status = "unhealthy" /\ h.checks[4].error = Some(hInput.email)
              /\ "read" \in hInput.fsFails => h.checks[2].status = "unhealthy"

\* the probes settled last to first, two of them after an exception of their own
C19_Witness ==
    /\ hSnapshot # None
    /\ hOrder = <<"Email Service", "GitHub API", "File System", "Environment">>
    /\ hInput.github = "testConnection throws"
    /\ hInput.fsFails = {"read"}
    /\ Len(hSnapshot[1].checks) = 4
    /\ hSnapshot[1].checks[1].name = "Environment"
    /\ hSnapshot[1].checks[4].status = "healthy"

(***************************************************************************)
(* C20. As stated: the filesystem probe reports 'healthy' only if all four *)
(* steps succeeded (write, read back, parse, delete) and 'unhealthy' with  *)
(* the captured error when any one of those steps fails.                   *)
(***************************************************************************)
C20_AsStated ==
    hProbe["File System"] # None =>
        LET c == hProbe["File System"][1] IN
        /\ c.status = "healthy" => hInput.fsFails = {}
        /\ hInput.fsFails # {} => (c.status = "unhealthy" /\ c.error # None)

(***************************************************************************)
(* C20, amended: the filesystem probe reports 'healthy' if and only if the *)
(* write, the read back and the parse succeeded, and 'unhealthy' with the  *)
(* captured error of the first of these steps that failed otherwise; a     *)
(* failure to delete the marker file is ignored.                           *)
(***************************************************************************)
C20_FileSystemProbe ==
    hProbe["File System"] # None =>
        LET c == hProbe["File System"][1]
            failed == hInput.fsFails \cap {"write", "read", "parse"}
        IN
        /\ c.name = "File System"
        /\ c.status = "healthy" <=> failed = {}
        /\ c.status = "unhealthy" <=> failed # {}
        /\ failed # {} =>
              c.error = Some(IF "write" \in failed THEN "write"
                             ELSE IF "read" \in failed THEN "read" ELSE "parse")

\* only the delete failed: the probe is healthy
C20_Witness ==
    /\ hProbe["File System"] # None
    /\ hInput.fsFails = {"unlink"}
    /\ hProbe["File System"][1].status = "healthy"

C20_WitnessUnhealthy ==
    /\ hProbe["File System"] # None
    /\ hInput.fsFails = {"write", "parse"}
    /\ hProbe["File System"][1] = Check("File System", "unhealthy", Some("write"))

(***************************************************************************)
(* C21. Each external-dependency probe (GitHub API, Email Service) reports *)
(* 'healthy' if and only if a connectivity check of its dependency         *)
(* succeeded, and 'unhealthy' with the error of the dependency when the    *)
(* dependency reports failure or the check throws.                         *)
(***************************************************************************)
C21_ProbesCheckConnectivity ==
    /\ hProbe["GitHub API"] # None =>
          LET c == hProbe["GitHub API"][1] IN
          /\ c.status = "healthy" <=> hInput.github = "success"
          /\ hInput.github # "success" => (c.status = "unhealthy" /\ c.error # None)
    /\ hProbe["Email Service"] # None =>
          LET c == hProbe["Email Service"][1]
              connected == hInput.email = "initialized" /\ hInput.emailReachable
          IN
          /\ c.status = "healthy" <=> connected
          /\ ~connected => (c.status = "unhealthy" /\ c.error # None)

\* the part of C21 about the GitHub probe alone
C21_GitHubProbe ==
    hProbe["GitHub API"] # None =>
        LET c == hProbe["GitHub API"][1] IN
        /\ c.status = "healthy" <=> hInput.github = "success"
        /\ hInput.github = "failure" => c = Check("GitHub API", "unhealthy", Some("result.error"))
        /\ hInput.github \notin {"success", "failure"} =>
              c = Check("GitHub API", "unhealthy", Some(hInput.github))

(***************************************************************************)
(* The request metrics recorder: HealthChecker.recordRequest, resetMetrics *)
(* and withMetrics (monitoring.ts:301-376).                                *)
(*                                                                         *)
(* averageResponseTime and errorRate are quotients; a quotient is kept as  *)
(* the pair [num, den] it was computed from, and two quotients are equal   *)
(* when num1 * den2 = num2 * den1.                                         *)
(* Wrapped handlers run concurrently: an invocation starts, its handler    *)
(* settles at a later time, and the continuation of the wrapper (catch,    *)
(* finally, settle) runs without suspension. The clock advances by one     *)
(* tick with every step, so the response time of an invocation is the      *)
(* number of steps taken while its handler was pending.                    *)
(***************************************************************************)
MaxInvocations == 2
MaxResets == 1

Endpoints == {"/api/a", "/api/b"}
HandlerValues == {"v1", "v2"}
HandlerErrors == {"e1"}

Quot(num, den) == [num |-> num, den |-> den]
SameQuot(q, r) == q.num * r.den = r.num * q.den

\* the fresh store (monitoring.ts:43-49 and 339-345)
FreshMetrics ==
    [requestCount |-> 0, averageResponseTime |-> Quot(0, 1), errorRate |-> Quot(0, 1),
     lastReset |-> 0, endpoints |-> <<>>]

\* .reduce((sum, ep) => sum + ep[field], 0) over Object.values(endpoints)
RECURSIVE SumField(_, _)
SumField(endpoints, field) ==
    IF DOMAIN endpoints = {} THEN 0
    ELSE LET e == CHOOSE x \in DOMAIN endpoints : TRUE
             rest == [x \in DOMAIN endpoints \ {e} |-> endpoints[x]]
         IN  endpoints[e][field] + SumField(rest, field)

\* lines 304-310: the entry of the endpoint, created when absent
WithEntry(endpoints, endpoint) ==
    IF endpoint \in DOMAIN endpoints THEN endpoints
    ELSE [e \in DOMAIN endpoints \cup {endpoint} |->
             IF e = endpoint THEN [count |-> 0, totalTime |-> 0, errors |-> 0]
             ELSE endpoints[e]]

\* faulty variant: the aggregates are those of the endpoint of the request alone
RecordRequest_PerEndpoint(m, endpoint, responseTime, isError) ==
    LET eps == WithEntry(m.endpoints, endpoint)
        ep  == [count |-> eps[endpoint].count + 1,
                totalTime |-> eps[endpoint].totalTime + responseTime,
                errors |-> eps[endpoint].errors + (IF isError THEN 1 ELSE 0)]
    IN  [m EXCEPT !.requestCount = m.requestCount + 1,
                  !.endpoints = [eps EXCEPT ![endpoint] = ep],
                  !.averageResponseTime = Quot(ep.totalTime, ep.count),
                  !.errorRate = Quot(ep.errors, ep.count)]

\* recordRequest (monitoring.ts:301-326)
RecordRequest(m, endpoint, responseTime, isError) ==
    LET requestCount == m.requestCount + 1
        eps == WithEntry(m.endpoints, endpoint)
        ep  == [count |-> eps[endpoint].count + 1,
                totalTime |-> eps[endpoint].totalTime + responseTime,
                errors |-> eps[endpoint].errors + (IF isError THEN 1 ELSE 0)]
        endpoints == [eps EXCEPT ![endpoint] = ep]
    IN  [m EXCEPT !.requestCount = requestCount,
                  !.endpoints = endpoints,
                  !.averageResponseTime = Quot(SumField(endpoints, "totalTime"), requestCount),
                  !.errorRate = Quot(SumField(endpoints, "errors"), requestCount)]

\* resetMetrics (monitoring.ts:338-348), called at time t
ResetMetricsOp(t) == [FreshMetrics EXCEPT !.lastReset = t]

\* how a promise settled
Resolved(v) == [kind |-> "resolved", value |-> v]
Rejected(e) == [kind |-> "rejected", value |-> e]

\* faulty variant: the catch block swallows the error
WithMetricsTry_Swallow(h) ==
    [isError |-> h.kind = "rejected", completion |-> Resolved(None)]

\* faulty variant: isError is never set
WithMetricsTry_NoFlag(h) == [isError |-> FALSE, completion |-> h]

\* the try and catch blocks of the wrapper (lines 365-370), h: how the handler settled
WithMetricsTry(h) ==
    IF h.kind = "resolved"
    THEN [isError |-> FALSE, completion |-> Resolved(h.value)]
    ELSE [isError |-> TRUE, completion |-> Rejected(h.value)]

\* the finally block (lines 371-374): it records and completes normally, so the
\* completion of the try statement is the one of the try or catch block
WithMetricsFinally(m, endpoint, startTime, t, c) ==
    [metrics |-> RecordRequest(m, endpoint, t - startTime, c.isError),
     completion |-> c.completion]

MetricsInit ==
    /\ mMetrics = Some(FreshMetrics)
    /\ mNow = 0
    /\ mFlight = {}
    /\ mNext = 0
    /\ mDone = <<>>
    /\ mLog = <<>>
    /\ mEpoch = 0

\* the continuation of a wrapped invocation once its handler has settled as h
Settle(id, endpoint, startTime, h) ==
    LET c == WithMetricsTry(h)
        f == WithMetricsFinally(mMetrics[1], endpoint, startTime, mNow, c)
    IN  /\ mMetrics' = Some(f.metrics)
        /\ mLog' = Append(mLog, [id |-> id, endpoint |-> endpoint,
                                 responseTime |-> mNow - startTime, isError |-> c.isError])
        /\ mDone' = Append(mDone, [id |-> id, endpoint |-> endpoint, handler |-> h,
                                   wrapper |-> f.completion, epoch |-> mEpoch])

\* a wrapped handler is invoked and returns a pending promise
InvokeWrapped(endpoint) ==
    /\ mNext < MaxInvocations
    /\ mNext' = mNext + 1
    /\ mFlight' = mFlight \cup {[id |-> mNext + 1, endpoint |-> endpoint, startTime |-> mNow]}
    /\ mNow' = mNow + 1
    /\ UNCHANGED <<mMetrics, mDone, mLog, mEpoch>>
    /\ UNCHANGED <<coreVars, uptimeVars, postVars, boundaryVars, lateVars>>

\* a wrapped handler is invoked and throws before returning a promise
InvokeWrappedThrows(endpoint, e) ==
    /\ mNext < MaxInvocations
    /\ mNext' = mNext + 1
    /\ Settle(mNext + 1, endpoint, mNow, Rejected(e))
    /\ mNow' = mNow + 1
    /\ UNCHANGED <<mFlight, mEpoch>>
    /\ UNCHANGED <<coreVars, uptimeVars, postVars, boundaryVars, lateVars>>

\* the promise of a handler in flight settles
HandlerSettles(i, h) ==
    /\ i \in mFlight
    /\ mFlight' = mFlight \ {i}
    /\ Settle(i.id, i.endpoint, i.startTime, h)
    /\ mNow' = mNow + 1
    /\ UNCHANGED <<mNext, mEpoch>>
    /\ UNCHANGED <<coreVars, uptimeVars, postVars, boundaryVars, lateVars>>

ResetMetrics ==
    /\ mEpoch < MaxResets
    /\ mMetrics' = Some(ResetMetricsOp(mNow))
    /\ mEpoch' = mEpoch + 1
    /\ mNow' = mNow + 1
    /\ UNCHANGED <<mFlight, mNext, mDone, mLog>>
    /\ UNCHANGED <<coreVars, uptimeVars, postVars, boundaryVars, lateVars>>

NextMetrics ==
    \/ \E endpoint \in Endpoints : InvokeWrapped(endpoint)
    \/ \E endpoint \in Endpoints, e \in HandlerErrors : InvokeWrappedThrows(endpoint, e)
    \/ \E i \in mFlight, v \in HandlerValues : HandlerSettles(i, Resolved(v))
    \/ \E i \in mFlight, e \in HandlerErrors : HandlerSettles(i, Rejected(e))
    \/ ResetMetrics

InitMetrics ==
    RetryIdle /\ ClsIdle /\ LogIdle /\ MaintIdle /\ FaultIdle /\ FacadeIdle /\ HealthIdle
    /\ MetricsInit /\ UptimeIdle /\ PostIdle /\ BoundaryIdle /\ LateIdle

SpecMetrics == InitMetrics /\ [][NextMetrics]_vars

(***************************************************************************)
(* C22. withMetrics is a pure observer: the wrapped function resolves with *)
(* exactly the value its handler resolved with, or rejects with exactly    *)
(* the error its handler rejected with (or threw).                         *)
(***************************************************************************)
C22_PureObserver ==
    \A k \in DOMAIN mDone : mDone[k].wrapper = mDone[k].handler

\* one invocation resolved and another rejected, each as its handler did
C22_Witness ==
    \E j, k \in DOMAIN mDone :
        /\ mDone[j].handler = Resolved("v2") /\ mDone[j].wrapper = Resolved("v2")
        /\ mDone[k].handler = Rejected("e1") /\ mDone[k].wrapper = Rejected("e1")

(***************************************************************************)
(* C23. Every invocation of a wrapped handler is recorded exactly once,    *)
(* when its handler has settled and not before, under the endpoint name of *)
(* the wrapper and with the error flag set iff the handler rejected;       *)
(* whatever the interleaving of the handlers in flight, requestCount is    *)
(* the number of invocations settled since the last reset.                 *)
(***************************************************************************)
C23_RecordedOnceAfterSettle ==
    /\ \A i \in mFlight : \A k \in DOMAIN mLog : mLog[k].id # i.id
    /\ \A k \in DOMAIN mDone :
          LET recs == {j \in DOMAIN mLog : mLog[j].id = mDone[k].id} IN
          /\ Cardinality(recs) = 1
          /\ \A j \in recs :
                /\ mLog[j].endpoint = mDone[k].endpoint
                /\ mLog[j].isError <=> mDone[k].handler.kind = "rejected"
    /\ Len(mLog) = Len(mDone)
    /\ mMetrics[1].requestCount =
          Cardinality({k \in DOMAIN mDone : mDone[k].epoch = mEpoch})

\* two handlers in flight at once settled in the reverse of the order they were
\* invoked in, the first to settle with an error
C23_Witness ==
    /\ Len(mDone) = 2
    /\ mDone[1].id = 2 /\ mDone[2].id = 1
    /\ mDone[1].handler.kind = "rejected"
    /\ mDone[1].endpoint # mDone[2].endpoint
    /\ mLog[1].responseTime = 1 /\ mLog[2].responseTime = 3
    /\ mMetrics[1].requestCount = 2

\* an invocation that began before a reset settled after it
C23_WitnessAcrossReset ==
    /\ mEpoch = 1
    /\ Len(mDone) = 2
    /\ mDone[1].epoch = 0 /\ mDone[2].epoch = 1
    /\ mDone[2].id = 1
    /\ mMetrics[1].requestCount = 1

C24_WitnessReset ==
    /\ mEpoch = 1
    /\ Len(mDone) = 2
    /\ \A k \in DOMAIN mDone : mDone[k].epoch = 0
    /\ {mDone[k].endpoint : k \in DOMAIN mDone} = Endpoints
    /\ \E k \in DOMAIN mDone : mDone[k].handler.kind = "rejected"
    /\ mMetrics[1].requestCount = 0
    /\ mMetrics[1].endpoints = <<>>
    /\ mMetrics[1].lastReset = 4

maxChecks == 100
recentWindow == 20
MaxRecorded == 102

\* array.slice(-k)
SliceLast(seq, k) ==
    IF Len(seq) <= k THEN seq ELSE SubSeq(seq, Len(seq) - k + 1, Len(seq))

\* faulty variant: on overflow the newest entry is dropped
RecordCheckOp_DropNewest(checks, timestamp, isHealthy) ==
    LET pushed == Append(checks, [timestamp |-> timestamp, status |-> isHealthy])
    IN  IF Len(pushed) > maxChecks THEN SubSeq(pushed, 1, maxChecks) ELSE pushed

\* recordCheck (monitoring.ts:389-399)
RecordCheckOp(checks, timestamp, isHealthy) ==
    LET pushed == Append(checks, [timestamp |-> timestamp, status |-> isHealthy])
    IN  IF Len(pushed) > maxChecks THEN SliceLast(pushed, maxChecks) ELSE pushed

\* faulty variant: the availability is taken over the whole ledger
RecentChecks_WholeLedger(checks) == checks

\* line 408
RecentChecks(checks) == SliceLast(checks, recentWindow)

\* Math.floor(a / b) for a >= 0, b > 0
FloorDiv(a, b) == a \div b

\* Math.round(x) for x = num / den >= 0: the nearest integer, halves upwards
RoundQuot(num, den) == FloorDiv(2 * num + den, 2 * den)

\* lines 409-412 and 417: (successful / recent) * 100, rounded to two decimals,
\* in hundredths of a percent
Availability(successful, recent) ==
    IF recent > 0 THEN RoundQuot(successful * 100 * 100, recent) ELSE 100 * 100

Part(n, unit) == [n |-> n, unit |-> unit]

\* faulty variant: the hours and minutes are not reduced
FormatUptime_NoModulo(ms) ==
    LET seconds == FloorDiv(ms, 1000)
        minutes == FloorDiv(seconds, 60)
        hours   == FloorDiv(minutes, 60)
        days    == FloorDiv(hours, 24)
    IN  IF days > 0 THEN <<Part(days, "d"), Part(hours, "h"), Part(minutes, "m")>>
        ELSE IF hours > 0 THEN <<Part(hours, "h"), Part(minutes, "m")>>
        ELSE IF minutes > 0 THEN <<Part(minutes, "m"), Part(seconds, "s")>>
        ELSE <<Part(seconds, "s")>>

\* formatUptime (monitoring.ts:424-439)
FormatUptime(ms) ==
    LET seconds == FloorDiv(ms, 1000)
        minutes == FloorDiv(seconds, 60)
        hours   == FloorDiv(minutes, 60)
        days    == FloorDiv(hours, 24)
    IN  IF days > 0 THEN <<Part(days, "d"), Part(hours % 24, "h"), Part(minutes % 60, "m")>>
        ELSE IF hours > 0 THEN <<Part(hours, "h"), Part(minutes % 60, "m")>>
        ELSE IF minutes > 0 THEN <<Part(minutes, "m"), Part(seconds % 60, "s")>>
        ELSE <<Part(seconds, "s")>>

\* getStats (monitoring.ts:404-422), uptimeMs = now - startTime
GetStatsOp(checks, uptimeMs) ==
    LET recentChecks == RecentChecks(checks)
        successfulChecks ==
            Cardinality({i \in DOMAIN recentChecks : recentChecks[i].status})
    IN  [uptime |-> uptimeMs,
         uptimeFormatted |-> FormatUptime(uptimeMs),
         availability |-> Availability(successfulChecks, Len(recentChecks)),
         totalChecks |-> Len(checks),
         recentChecks |-> Len(recentChecks),
         successfulChecks |-> successfulChecks]

\* the outcomes of the successive health checks: periodic failures, or healthy
\* until a given check and unhealthy from then on
Periodic(period, down) == [kind |-> "periodic", period |-> period, down |-> down, until |-> 0]
Until(k) == [kind |-> "until", period |-> 1, down |-> {}, until |-> k]
Scheduled(p, k) ==
    IF p.kind = "periodic" THEN (k % p.period) \notin p.down ELSE k <= p.until

UptimePatterns ==
    {Periodic(1, {}), Periodic(1, {0}), Periodic(2, {0}), Periodic(4, {0}),
     Periodic(3, {1, 2}), Periodic(7, {3}), Until(5), Until(85)}

\* uptimes in milliseconds, around every change of unit
UptimeSamples ==
    {0, 999, 1000, 59999, 60000, 61000, 3599999, 3600000, 3661000, 7322000,
     86399999, 86400000, 90061000, 180000000, 266400000}

UptimeInit ==
    /\ upChecks = <<>>
    /\ upHist = <<>>
    /\ upPattern \in {Some(p) : p \in UptimePatterns}
    /\ upStats = None

RecordCheck(isHealthy) ==
    /\ Len(upHist) < MaxRecorded
    /\ isHealthy = Scheduled(upPattern[1], Len(upHist) + 1)
    /\ upChecks' = RecordCheckOp(upChecks, Len(upHist) + 1, isHealthy)
    /\ upHist' = Append(upHist, isHealthy)
    /\ upStats' = None
    /\ UNCHANGED upPattern
    /\ UNCHANGED <<coreVars, metricsVars, postVars, boundaryVars, lateVars>>

GetStats(uptimeMs) ==
    /\ upStats = None
    /\ upStats' = Some(GetStatsOp(upChecks, uptimeMs))
    /\ UNCHANGED <<upChecks, upHist, upPattern>>
    /\ UNCHANGED <<coreVars, metricsVars, postVars, boundaryVars, lateVars>>

NextUptime ==
    \/ \E isHealthy \in BOOLEAN : RecordCheck(isHealthy)
    \/ \E uptimeMs \in UptimeSamples : GetStats(uptimeMs)

InitUptime ==
    RetryIdle /\ ClsIdle /\ LogIdle /\ MaintIdle /\ FaultIdle /\ FacadeIdle /\ HealthIdle
    /\ MetricsIdle /\ UptimeInit /\ PostIdle /\ BoundaryIdle /\ LateIdle

SpecUptime == InitUptime /\ [][NextUptime]_vars

(***************************************************************************)
(* C25. After n recordCheck calls the ledger holds exactly the last        *)
(* min(n, 100) recorded outcomes, in the order they were recorded; its     *)
(* length never exceeds 100 and the entry evicted on overflow is the       *)
(* oldest.                                                                 *)
(***************************************************************************)
C25_BoundedLedger ==
    LET n == Len(upHist)
        held == Min(n, 100)
    IN
    /\ Len(upChecks) = held
    /\ Len(upChecks) <= 100
    /\ \A i \in 1..held :
          /\ upChecks[i].timestamp = n - held + i
          /\ upChecks[i].status = upHist[n - held + i]

\* 102 checks recorded, every seventh one unhealthy: the two oldest are gone
C25_Witness ==
    /\ Len(upHist) = 102
    /\ upPattern = Some(Periodic(7, {3}))
    /\ Len(upChecks) = 100
    /\ upChecks[1].timestamp = 3 /\ ~upChecks[1].status
    /\ upChecks[100].timestamp = 102

(***************************************************************************)
(* C26. getStats().availability is 100 * (true outcomes among the last     *)
(* min(20, n) recorded checks) / min(20, n), rounded to two decimals; it   *)
(* depends on no entry older than the 20 most recent, lies within          *)
(* [0, 100], is 100 when no check has been recorded, and is 75.00 for 15   *)
(* true and 5 false among the last 20.                                     *)
(***************************************************************************)
C26_Availability ==
    upStats # None =>
        LET n == Len(upHist)
            r == Min(20, n)
            trues == Cardinality({i \in (n - r + 1)..n : upHist[i]})
            a == upStats[1].availability
        IN
        /\ 0 <= a /\ a <= 100 * 100
        /\ n = 0 => a = 100 * 100
        /\ n > 0 =>
              \* a / 100 is the multiple of 0.01 nearest to 100 * trues / r
              /\ 2 * (a * r - 100 * 100 * trues) <= r
              /\ 2 * (100 * 100 * trues - a * r) < r
        /\ (r = 20 /\ trues = 15) => a = 7500
        /\ upStats[1].recentChecks = r
        /\ upStats[1].successfulChecks = trues

\* 15 of the last 20 checks were healthy, fewer of the older ones: 75.00
C26_Witness ==
    /\ upStats # None
    /\ upPattern = Some(Periodic(4, {0}))
    /\ Len(upHist) = 40
    /\ upStats[1].successfulChecks = 15 /\ upStats[1].recentChecks = 20
    /\ upStats[1].availability = 7500

\* the last 20 checks were all unhealthy, the 5 before them healthy: 0.00
C26_WitnessOlderIgnored ==
    /\ upStats # None
    /\ upPattern = Some(Until(5))
    /\ Len(upHist) = 25
    /\ upStats[1].totalChecks = 25
    /\ upStats[1].availability = 0

\* 1 of 3 checks healthy: 33.33
C26_WitnessRounded ==
    /\ upStats # None
    /\ Len(upHist) = 3
    /\ upStats[1].successfulChecks = 1
    /\ upStats[1].availability = 3333

(***************************************************************************)
(* C27. As stated: the formatted uptime shows the two most significant     *)
(* units of the duration (days and hours, hours and minutes, or minutes    *)
(* and seconds), for every uptime in milliseconds.                         *)
(***************************************************************************)
C27_AsStated ==
    upStats # None =>
        LET f == upStats[1].uptimeFormatted IN
        /\ Len(f) = 2
        /\ <<f[1].unit, f[2].unit>> \in {<<"d", "h">>, <<"h", "m">>, <<"m", "s">>}

(***************************************************************************)
(* C27, amended: the formatted uptime shows days, hours and minutes when   *)
(* the uptime is at least one day, hours and minutes when it is at least   *)
(* one hour, minutes and seconds when it is at least one minute, and       *)
(* seconds alone below one minute; the leading part is never 0 unless the  *)
(* uptime is below one second, every other part is reduced (hours below    *)
(* 24, minutes and seconds below 60), and the parts add up to the uptime   *)
(* truncated to the smallest unit shown.                                   *)
(***************************************************************************)
C27_FormatUptime ==
    upStats # None =>
        LET ms == upStats[1].uptime
            f  == upStats[1].uptimeFormatted
            units == [i \in DOMAIN f |-> f[i].unit]
            MsOf(unit) == CASE unit = "d" -> 86400000 [] unit = "h" -> 3600000
                            [] unit = "m" -> 60000 [] unit = "s" -> 1000
            CapOf(unit) == CASE unit = "h" -> 24 [] unit = "m" -> 60 [] unit = "s" -> 60
            total == IF Len(f) = 1 THEN f[1].n * MsOf(f[1].unit)
                     ELSE IF Len(f) = 2
                          THEN f[1].n * MsOf(f[1].unit) + f[2].n * MsOf(f[2].unit)
                          ELSE f[1].n * MsOf(f[1].unit) + f[2].n * MsOf(f[2].unit)
                               + f[3].n * MsOf(f[3].unit)
            smallest == MsOf(f[Len(f)].unit)
        IN
        /\ units = (IF ms >= 86400000 THEN <<"d", "h", "m">>
                    ELSE IF ms >= 3600000 THEN <<"h", "m">>
                    ELSE IF ms >= 60000 THEN <<"m", "s">>
                    ELSE <<"s">>)
        /\ ms >= 1000 => f[1].n > 0
        /\ \A i \in 2..Len(f) : 0 <= f[i].n /\ f[i].n < CapOf(f[i].unit)
        /\ total <= ms /\ ms < total + smallest

\* 1 day, 1 hour, 1 minute and 1 second: "1d 1h 1m"
C27_Witness ==
    /\ upStats # None
    /\ upStats[1].uptime = 90061000
    /\ upStats[1].uptimeFormatted = <<Part(1, "d"), Part(1, "h"), Part(1, "m")>>

\* 999 milliseconds: "0s"
C27_WitnessSeconds ==
    /\ upStats # None
    /\ upStats[1].uptime = 999
    /\ upStats[1].uptimeFormatted = <<Part(0, "s")>>

\* 2 hours, 2 minutes and 2 seconds: "2h 2m"
C27_WitnessHours ==
    /\ upStats # None
    /\ upStats[1].uptime = 7322000
    /\ upStats[1].uptimeFormatted = <<Part(2, "h"), Part(2, "m")>>

(***************************************************************************)
(* The error submission endpoint: POST /api/errors (route.ts:5-46), which  *)
(* hands the record to ServerErrorLogger.log (part_002:201-221).           *)
(*                                                                         *)
(* A JSON object is a function from its keys to their values; a field that *)
(* is absent is None in the records below. The line written to the file    *)
(* carries, besides its size, the entry that was serialized.               *)
(***************************************************************************)
\* what request.json() gives: it throws on a malformed body, and the body may be
\* the JSON value null, or an object
Payload(message, error, context, level, url) ==
    [kind |-> "object", message |-> message, error |-> error, context |-> context,
     level |-> level, url |-> url]
MalformedBody == [kind |-> "malformed"]
NullBody == [kind |-> "null"]

\* a JSON string and a JSON number
JsString(v) == [type |-> "string", value |-> v]
JsNumber(v) == [type |-> "number", value |-> v]

PlainContext == [page |-> "home"]
ForgedContext ==
    [page |-> "home", clientSide |-> FALSE,
     request |-> [method |-> "GET", url |-> "/forged", userAgent |-> None, ip |-> "0.0.0.0"]]

PostBodies ==
    {MalformedBody, NullBody}
    \cup {Payload(message, error, context, level, url) :
            message \in {None, Some("boom")},
            error \in {None, Some([name |-> "TypeError", message |-> "client failure"])},
            context \in {None, Some(PlainContext), Some(ForgedContext)},
            level \in {None, Some(JsString("warn")), Some(JsNumber("5"))},
            url \in {None, Some("/page")}}

\* the headers of the request and request.ip
PostHeaders ==
    {[userAgent |-> Some("UA"), forwardedFor |-> Some("10.0.0.1"), realIp |-> Some("10.0.0.2"),
      ip |-> Some("10.0.0.3")],
     [userAgent |-> None, forwardedFor |-> None, realIp |-> Some("10.0.0.2"),
      ip |-> Some("10.0.0.3")],
     [userAgent |-> None, forwardedFor |-> None, realIp |-> None, ip |-> None]}

RequestUrl == "/api/errors"

\* a || b || ... || last, on optional values
RECURSIVE FirstPresent(_, _)
FirstPresent(options, last) ==
    IF options = <<>> THEN last
    ELSE IF Head(options) # None THEN Head(options)[1]
    ELSE FirstPresent(Tail(options), last)

\* { ...a, ...b }: the keys of b win
Spread(a, b) == [k \in DOMAIN a \cup DOMAIN b |-> IF k \in DOMAIN b THEN b[k] ELSE a[k]]

\* faulty variant: the submitted context is spread last and wins
EnhancedContext_SubmittedWins(body, headers) ==
    Spread([clientSide |-> TRUE,
            request |-> [method |-> "POST",
                         url |-> FirstPresent(<<body.url>>, RequestUrl),
                         userAgent |-> headers.userAgent,
                         ip |-> FirstPresent(<<headers.forwardedFor, headers.realIp, headers.ip>>,
                                             "unknown")]],
           IF body.context = None THEN <<>> ELSE body.context[1])

\* route.ts:11-28
EnhancedContext(body, headers) ==
    Spread(IF body.context = None THEN <<>> ELSE body.context[1],
           [clientSide |-> TRUE,
            request |-> [method |-> "POST",
                         url |-> FirstPresent(<<body.url>>, RequestUrl),
                         userAgent |-> headers.userAgent,
                         ip |-> FirstPresent(<<headers.forwardedFor, headers.realIp, headers.ip>>,
                                             "unknown")]])

\* createErrorLog (part_002:178-196) as serialized by logToFile (48-51)
CreateErrorLog(message, error, context, level, t) ==
    [id |-> t, timestamp |-> t, level |-> level, message |-> message,
     error |-> IF error = None THEN None
               ELSE Some([name |-> error[1].name, message |-> error[1].message]),
     context |-> context]

\* the line logToFile writes for the entry: 300 bytes of JSON text
EntryLine(entry) == [id |-> 0, bytes |-> 300, text |-> <<"{", "}">>, entry |-> entry]

\* level.toUpperCase() (part_002:211) throws a TypeError when level is no string
IsString(v) == v.type = "string"

\* ServerErrorLogger.log (part_002:201-221) with its file system effects;
\* the webhook call catches its own failures (226-246)
ServerLog(env, message, error, context, level, dir, exists, t, F) ==
    LET errorLog == CreateErrorLog(message, error, context, level, t) IN
    IF env.mode = "development" /\ ~IsString(level)
    THEN [exc |-> Some("TypeError: level.toUpperCase is not a function"),
          dir |-> dir, exists |-> exists, line |-> None]
    ELSE IF env.mode = "production"
    THEN LET w == LogToFileOp(dir, exists, EntryLine(errorLog), t, F)
         IN  [exc |-> w.exc, dir |-> w.dir, exists |-> w.exists,
              line |-> Some(EntryLine(errorLog))]
    ELSE [exc |-> None, dir |-> dir, exists |-> exists, line |-> None]

Response(status, body) == [status |-> status, body |-> body]

\* the try block of POST (route.ts:6-38)
PostBody(req, env, dir, exists, t, F) ==
    IF req.body.kind = "malformed"
    THEN [exc |-> Some("SyntaxError: Unexpected token"), dir |-> dir, exists |-> exists,
          line |-> None, response |-> None]
    ELSE IF req.body.kind = "null"
    THEN [exc |-> Some("TypeError: Cannot destructure property 'message' of 'body'"),
          dir |-> dir, exists |-> exists, line |-> None, response |-> None]
    ELSE LET body  == req.body
             level == IF body.level = None THEN JsString("error") ELSE body.level[1]
             error == IF body.error = None THEN None
                      ELSE Some([name |-> "Error", message |-> body.error[1].message])
             r     == ServerLog(env, body.message, error, EnhancedContext(body, req.headers),
                                level, dir, exists, t, F)
         IN  [exc |-> r.exc, dir |-> r.dir, exists |-> r.exists, line |-> r.line,
              response |-> IF r.exc = None THEN Some(Response(200, [success |-> TRUE]))
                           ELSE None]

\* faulty variant: the message of the exception is sent back
PostCatch_LeakError(r) ==
    IF r.exc = None THEN r
    ELSE [r EXCEPT !.exc = None,
                   !.response = Some(Response(500, [success |-> FALSE, error |-> r.exc[1]]))]

\* the catch block (route.ts:39-45)
PostCatch(r) ==
    IF r.exc = None THEN r
    ELSE [r EXCEPT !.exc = None,
                   !.response = Some(Response(500, [success |-> FALSE,
                                                    error |-> "Failed to log error"]))]

\* no file-system call fails, or one of the calls of logToFile does
PostFailureSets ==
    {{}, {Failure("mkdir", DirName)}, {Failure("write", Today)}, {Failure("readdir", DirName)},
     {Failure("rename", Today)}}

\* the directory: no or ten older files; the file of the day absent, 200 bytes
\* short of the size limit, or 50 bytes over it
PostDirs ==
    {Merge(Others, Merge(OldTextFiles(k), today)) :
        k \in {0, 10},
        today \in {TodayText(200), TodayText(0 - 50), Remove(TodayText(200), {Today})}}

PostInit ==
    /\ facadeEnv \in [mode : Modes, window : {FALSE}, webhook : {FALSE}]
    /\ facadeCall = None
    /\ \/ dirExists = FALSE /\ fs = Remove(Others, DOMAIN Others)
       \/ dirExists = TRUE /\ fs \in PostDirs
    /\ now = StartTick
    /\ written = 0
    /\ lastWrite = None
    /\ postCall = None

\* one request handled by POST
Post(body, headers, F) ==
    /\ postCall = None
    /\ LET req   == [body |-> body, headers |-> headers]
           tried == PostBody(req, facadeEnv, fs, dirExists, now, F)
           r     == PostCatch(tried)
       IN  /\ fs' = r.dir
           /\ dirExists' = r.exists
           /\ postCall' = Some([req |-> req, F |-> F, before |-> fs, failed |-> tried.exc # None,
                                threw |-> r.exc # None, line |-> r.line,
                                response |-> r.response])
    /\ UNCHANGED <<now, written, lastWrite>>
    /\ UNCHANGED <<retryVars, clsVars, maintVars, faultVars, facadeVars, healthVars,
                   metricsVars, uptimeVars, boundaryVars, lateVars>>

NextPost ==
    \E body \in PostBodies, headers \in PostHeaders, F \in PostFailureSets : Post(body, headers, F)

InitPost ==
    RetryIdle /\ PostInit /\ ClsIdle /\ MaintIdle /\ FaultIdle /\ HealthIdle /\ MetricsIdle /\ UptimeIdle
    /\ BoundaryIdle /\ LateIdle

SpecPost == InitPost /\ [][NextPost]_vars

\* the log files of the directory that end with the line, after the lines they
\* had before the request
HoldingFiles(c, dir) ==
    {n \in DOMAIN dir :
        /\ IsLogFile(n)
        /\ dir[n].lines # <<>>
        /\ dir[n].lines[Len(dir[n].lines)] = c.line[1]
        /\ SubSeq(dir[n].lines, 1, Len(dir[n].lines) - 1) =
              (IF Today \in DOMAIN c.before THEN c.before[Today].lines ELSE <<>>)}

C28_WitnessFirstLine ==
    /\ postCall # None
    /\ facadeEnv.mode = "production"
    /\ postCall[1].before = <<>>
    /\ Today \in DOMAIN fs
    /\ Len(fs[Today].lines) = 1
    /\ fs[Today].lines[1].entry.message = Some("boom")

\* development mode: acknowledged, nothing written
C28_WitnessNotWritten ==
    /\ postCall # None
    /\ facadeEnv.mode = "development"
    /\ postCall[1].req.body.kind = "object"
    /\ postCall[1].response = Some(Response(200, [success |-> TRUE]))
    /\ fs = postCall[1].before

(***************************************************************************)
(* C29. The response of the endpoint tells nothing of the payload or of    *)
(* the internal failure: it is either the fixed success acknowledgment     *)
(* {success: true} or the fixed failure acknowledgment (status 500,        *)
(* {success: false, error: 'Failed to log error'}), the latter exactly     *)
(* when the handling of the request threw.                                 *)
(***************************************************************************)
C29_FixedAcknowledgment ==
    postCall # None =>
        LET c == postCall[1]
            body == c.req.body
        IN
        /\ ~c.threw
        /\ c.response # None
        /\ \/ c.response[1] = Response(200, [success |-> TRUE])
           \/ c.response[1] = Response(500, [success |-> FALSE, error |-> "Failed to log error"])
        /\ c.response[1].status = 500 <=> c.failed
        /\ c.failed <=>
              \/ body.kind \in {"malformed", "null"}
              \/ /\ facadeEnv.mode = "development"
                 /\ body.level # None
                 /\ body.level[1].type # "string"

\* a body that is no JSON: the fixed failure acknowledgment
C29_Witness ==
    /\ postCall # None
    /\ postCall[1].req.body.kind = "malformed"
    /\ postCall[1].failed
    /\ postCall[1].response[1].status = 500

\* the write failed inside the logger: the success acknowledgment all the same
C29_WitnessSwallowed ==
    /\ postCall # None
    /\ facadeEnv.mode = "production"
    /\ postCall[1].req.body.kind = "object"
    /\ postCall[1].F = {Failure("write", Today)}
    /\ postCall[1].response = Some(Response(200, [success |-> TRUE]))

(***************************************************************************)
(* The handler boundaries: handleAsyncError and withErrorHandling          *)
(* (part_000:360-409).                                                     *)
(*                                                                         *)
(* A value that is thrown is [class, id, message, code, statusCode,        *)
(* isRetryable, originalError]: class tells what it is (an AppError, an    *)
(* Error, a string, null), id which object it is, and message is None for  *)
(* a value that has no message property.                                   *)
(***************************************************************************)
Thrown(class, id, message) ==
    [class |-> class, id |-> id, message |-> message, code |-> None, statusCode |-> None,
     isRetryable |-> None, originalError |-> None]

\* new AppError(message, code, statusCode, context, isRetryable, originalError)
NewAppError(id, message, code, statusCode, isRetryable, originalError) ==
    [class |-> "AppError", id |-> id, message |-> Some(message), code |-> Some(code),
     statusCode |-> Some(statusCode), isRetryable |-> Some(isRetryable),
     originalError |-> originalError]

\* what operations fail with
AnAppError == NewAppError("e1", "rate limited", "RATE_LIMIT_EXCEEDED", 429, TRUE, None)
AnError == Thrown("Error", "e2", Some("boom"))
AnEmptyError == Thrown("Error", "e3", Some(""))
AString == Thrown("string", "e4", None)
ANull == Thrown("null", "e5", None)
ThrownValues == {AnAppError, AnError, AnEmptyError, AString, ANull}

\* error instanceof AppError, error instanceof Error
IsAppError(e) == e.class = "AppError"
IsError(e) == e.class \in {"AppError", "Error", "TypeError"}

\* error.message || 'Unknown error occurred'
MessageOr(e) ==
    IF e.message # None /\ e.message[1] # "" THEN e.message[1] ELSE "Unknown error occurred"

\* how the operation handed to a boundary ends: it returns a promise that
\* resolves or rejects, or it throws before returning a promise
Operations ==
    {Resolved("result")}
    \cup {Rejected(e) : e \in ThrownValues}
    \cup {[kind |-> "throws", value |-> e] : e \in ThrownValues}

\* logError(...) at a boundary: Logger.log serializes the context outside any
\* try block (part_000:213, 249)
LogErrorThrows(env, context) ==
    LoggerDispatch(env, "error", context,
                   [http |-> FALSE, file |-> FALSE, webhook |-> FALSE]).threw

TypeErrorOf(message) == Thrown("TypeError", "fresh", Some(message))

\* handleAsyncError (part_000:360-379): operation().catch(error => ...)
HandleAsyncError(op, context, env) ==
    IF op.kind = "throws" THEN op
    ELSE IF op.kind = "resolved" THEN op
    ELSE LET error == op.value IN
         IF ~IsAppError(error) /\ error.class = "null"
         THEN Rejected(TypeErrorOf("Cannot read properties of null (reading 'message')"))
         ELSE LET appError ==
                      IF IsAppError(error) THEN error
                      ELSE NewAppError("fresh", MessageOr(error), "VALIDATION_ERROR", 500,
                                       FALSE, Some(error))
              IN  IF LogErrorThrows(env, context)
                  THEN Rejected(TypeErrorOf("Converting circular structure to JSON"))
                  ELSE Rejected(appError)

\* withErrorHandling (part_000:384-409): try { return await handler(...args) }
WithErrorHandling(op, env) ==
    IF op.kind = "resolved" THEN op
    ELSE LET error == op.value IN
         IF IsAppError(error) THEN Rejected(error)
         ELSE LET appError ==
                      NewAppError("fresh",
                                  IF IsError(error) THEN error.message[1]
                                  ELSE "Unknown error occurred",
                                  "VALIDATION_ERROR", 500, FALSE,
                                  IF IsError(error) THEN Some(error) ELSE None)
              IN  IF LogErrorThrows(env, "none")
                  THEN Rejected(TypeErrorOf("Converting circular structure to JSON"))
                  ELSE Rejected(appError)

BoundaryInit ==
    /\ config = RETRY_CONFIGS.api
    /\ logLevel \in LogLevels
    /\ pc = "returned"
    /\ attempt = 0
    /\ lastError = None
    /\ calls = 0
    /\ inFlight = 0
    /\ timer = None
    /\ events = <<>>
    /\ outcome = [kind |-> "pending", value |-> None]
    /\ facadeEnv \in [mode : Modes, window : BOOLEAN, webhook : {FALSE}]
    /\ facadeCall = None
    /\ bCall = None

CallHandleAsyncError(op, context) ==
    /\ bCall = None
    /\ bCall' = Some([wrapper |-> "handleAsyncError", op |-> op, context |-> context,
                      outcome |-> HandleAsyncError(op, context, facadeEnv)])
    /\ UNCHANGED <<coreVars, metricsVars, uptimeVars, postVars, lateVars>>

CallWithErrorHandling(op) ==
    /\ bCall = None
    /\ bCall' = Some([wrapper |-> "withErrorHandling", op |-> op, context |-> "none",
                      outcome |-> WithErrorHandling(op, facadeEnv)])
    /\ UNCHANGED <<coreVars, metricsVars, uptimeVars, postVars, lateVars>>

NextBoundary ==
    \/ \E op \in Operations, context \in Contexts : CallHandleAsyncError(op, context)
    \/ \E op \in Operations : CallWithErrorHandling(op)

InitBoundary ==
    BoundaryInit /\ ClsIdle /\ LogIdle /\ MaintIdle /\ FaultIdle /\ HealthIdle
    /\ MetricsIdle /\ UptimeIdle /\ PostIdle /\ LateIdle

SpecBoundary == InitBoundary /\ [][NextBoundary]_vars

\* the failure is rethrown as an AppError made of it
Normalized(out, error) ==
    /\ out.kind = "rejected"
    /\ out.value.class = "AppError"
    /\ out.value.code = Some("VALIDATION_ERROR")
    /\ out.value.statusCode = Some(500)
    /\ out.value.isRetryable = Some(FALSE)
    /\ out.value.originalError = Some(error)

(***************************************************************************)
(* C30. At a handler boundary (handleAsyncError, withErrorHandling) every  *)
(* failure that is not already an AppError is rethrown as an AppError with *)
(* the generic validation-error code, status 500, isRetryable false and    *)
(* the original error kept as its cause; a failure that is already an      *)
(* AppError is rethrown as the very same object; a successful result       *)
(* passes through unchanged.                                               *)
(***************************************************************************)
C30_BoundaryNormalizes ==
    bCall # None =>
        LET c == bCall[1] IN
        /\ c.op.kind = "resolved" => c.outcome = c.op
        /\ (c.op.kind # "resolved" /\ IsAppError(c.op.value)) => c.outcome = Rejected(c.op.value)
        /\ (c.op.kind # "resolved" /\ ~IsAppError(c.op.value)) => Normalized(c.outcome, c.op.value)

\* the part of C30 that holds: a promise rejected with, or a handler throwing,
\* an Error object, the context given to handleAsyncError being serializable
C30_ErrorObjects ==
    bCall # None =>
        LET c == bCall[1]
            covered == /\ c.context # "circular"
                       /\ c.wrapper = "handleAsyncError" => c.op.kind # "throws"
        IN
        /\ c.op.kind = "resolved" => c.outcome = c.op
        /\ (covered /\ c.op.kind # "resolved" /\ IsAppError(c.op.value)) =>
              c.outcome = Rejected(c.op.value)
        /\ (covered /\ c.op.kind # "resolved" /\ c.op.value.class = "Error") =>
              Normalized(c.outcome, c.op.value)

\* handleAsyncError, the operation rejects with null: a TypeError comes out
C30_WitnessNull ==
    /\ bCall # None
    /\ bCall[1].wrapper = "handleAsyncError"
    /\ bCall[1].op = Rejected(ANull)
    /\ bCall[1].outcome.value.class = "TypeError"

(***************************************************************************)
(* withRetry (part_000:91-149) when its log calls may throw.               *)
(*                                                                         *)
(* logInfo, logWarn and logError are given {...context, ...}; Logger.log   *)
(* serializes it outside any try block (part_000:213, 249), so a context   *)
(* that JSON.stringify throws on makes the log call throw.  The context is *)
(* the caller's object: the operation may attach a circular structure to   *)
(* it (a response, a socket) while it runs.                                *)
(***************************************************************************)
M_circular == <<"C","o","n","v","e","r","t","i","n","g"," ","c","i","r","c","u","l","a","r",
                " ","s","t","r","u","c","t","u","r","e"," ","t","o"," ","J","S","O","N">>

\* the TypeError of JSON.stringify
StringifyError == Err(M_circular, None, None)

\* logInfo / logWarn / logError(message, {...context, ...}) throws
LogThrows(env, level, context) ==
    LoggerDispatch(env, level, context, [http |-> FALSE, file |-> FALSE, webhook |-> FALSE]).threw

\* the catch block, lines 113-145, entered with error after attempt++: where
\* the call goes next, what it throws, the delay it sleeps for, and its trace
RetryCatch(error, att, cfg, context, env) ==
    LET isRetryable == IsErrorRetryable(error, cfg.retryableErrors)
        delay == BackoffDelay(cfg, att)
    IN  IF ShouldThrow(isRetryable, att, cfg)
        THEN IF LogThrows(env, "error", context)
             THEN [next |-> "thrown", value |-> Some(StringifyError), delay |-> None,
                   trace |-> <<Ev("logthrow", "error", "", 0, 0, None),
                               Ev("throw", "", "", att, 0, Some(StringifyError))>>]
             ELSE [next |-> "thrown", value |-> Some(error), delay |-> None,
                   trace |-> LogErrorFinal(att, error)
                             \o <<Ev("throw", "", "", att, 0, Some(error))>>]
        ELSE IF LogThrows(env, "warn", context)
             THEN [next |-> "thrown", value |-> Some(StringifyError), delay |-> None,
                   trace |-> <<Ev("logthrow", "warn", "", 0, 0, None),
                               Ev("throw", "", "", att, 0, Some(StringifyError))>>]
             ELSE [next |-> PcAfterSleepStarted, value |-> None, delay |-> Some(delay),
                   trace |-> LogWarnRetry(att, delay, error)
                             \o <<Ev("delay", "", "", att, delay, None)>>]

RetryFaultPolicies ==
    {RETRY_CONFIGS.github, RETRY_CONFIGS.api, Policy(3, 1000, 10000, 2, None)}

RetryFaultInit ==
    /\ config \in RetryFaultPolicies
    /\ logLevel \in LogLevels
    /\ pc = "loop"
    /\ attempt = 0
    /\ lastError = None
    /\ calls = 0
    /\ inFlight = 0
    /\ timer = None
    /\ events = <<>>
    /\ outcome = [kind |-> "pending", value |-> None]
    /\ facadeEnv \in [mode : Modes, window : {FALSE}, webhook : {FALSE}]
    /\ facadeCall = None
    /\ rContext \in Contexts

\* the context after an invocation: as it was, or with a circular structure attached
ContextsAfter == {rContext, "circular"}

\* the catch block is entered with error
EnterCatch(error, trace) ==
    LET c == RetryCatch(error, attempt + 1, config, rContext', facadeEnv) IN
    /\ lastError' = Some(error)
    /\ attempt' = attempt + 1
    /\ events' = events \o trace \o c.trace
    /\ pc' = c.next
    /\ timer' = c.delay
    /\ outcome' = IF c.next = "thrown" THEN [kind |-> "thrown", value |-> c.value] ELSE outcome

\* lines 101-112: operation() resolves; the success log is inside the try block
OpResolvesLogging(r, c) ==
    /\ pc = "awaitOp"
    /\ inFlight' = inFlight - 1
    /\ rContext' = c
    /\ IF attempt > 0 /\ LogThrows(facadeEnv, "info", c)
       THEN EnterCatch(StringifyError,
                       <<Ev("ok", "", "", calls, 0, None), Ev("logthrow", "info", "", 0, 0, None)>>)
       ELSE /\ events' = events \o <<Ev("ok", "", "", calls, 0, None)>>
                                \o LogInfoSuccess(attempt)
                                \o <<Ev("return", "", "", calls, 0, None)>>
            /\ outcome' = [kind |-> "returned", value |-> Some(r)]
            /\ pc' = "returned"
            /\ UNCHANGED <<attempt, lastError, timer>>
    /\ UNCHANGED <<config, logLevel, calls>>
    /\ UNCHANGED <<clsVars, logVars, maintVars, faultVars, facadeVars, healthVars>>
    /\ UNCHANGED <<metricsVars, uptimeVars, postVars, boundaryVars>>
    /\ UNCHANGED <<appErrVars, raceVars, markerVars, snapVars, equivVars>>

\* lines 113-145: operation() rejects with error e
OpRejectsLogging(e, c) ==
    /\ pc = "awaitOp"
    /\ inFlight' = inFlight - 1
    /\ rContext' = c
    /\ EnterCatch(e, <<Ev("fail", "", "", calls, 0, Some(e))>>)
    /\ UNCHANGED <<config, logLevel, calls>>
    /\ UNCHANGED <<clsVars, logVars, maintVars, faultVars, facadeVars, healthVars>>
    /\ UNCHANGED <<metricsVars, uptimeVars, postVars, boundaryVars>>
    /\ UNCHANGED <<appErrVars, raceVars, markerVars, snapVars, equivVars>>

NextRetryFault ==
    \/ Invoke
    \/ \E r \in OpResults, c \in ContextsAfter : OpResolvesLogging(r, c)
    \/ \E e \in OpErrors, c \in ContextsAfter : OpRejectsLogging(e, c)
    \/ SleepDone

InitRetryFault ==
    RetryFaultInit /\ ClsIdle /\ LogIdle /\ MaintIdle /\ FaultIdle /\ HealthIdle
    /\ MetricsIdle /\ UptimeIdle /\ PostIdle /\ BoundaryIdle
    /\ AppErrIdle /\ RaceIdle /\ MarkerIdle /\ SnapIdle /\ EquivIdle

SpecRetryFault == InitRetryFault /\ [][NextRetryFault]_vars

\* the errors the operation rejected with, in order
RejectedWith(evs) ==
    SelectSeq(evs, LAMBDA x : x.type = "fail")

(***************************************************************************)
(* C31. A logging failure never masks or replaces the failure being        *)
(* reported: whenever withRetry ends in failure, the error its caller      *)
(* receives is the error the operation last rejected with, also when the   *)
(* log call made on that path itself fails.                                *)
(***************************************************************************)
C31_LogFailureNeverMasks ==
    pc = "thrown" =>
        /\ RejectedWith(events) # <<>>
        /\ outcome.value = RejectedWith(events)[Len(RejectedWith(events))].error

\* the part of C31 that holds: a call none of whose log calls threw ends with
\* the operation's last error
C31_WhenLogsSucceed ==
    (pc = "thrown" /\ \A i \in DOMAIN events : events[i].type # "logthrow") =>
        /\ RejectedWith(events) # <<>>
        /\ outcome.value = RejectedWith(events)[Len(RejectedWith(events))].error

\* the operation rejected with a network error, logError threw, and the caller
\* received the TypeError of JSON.stringify
C31_WitnessMasked ==
    /\ pc = "thrown"
    /\ outcome.value = Some(StringifyError)
    /\ RejectedWith(events) # <<>>
    /\ \E i \in DOMAIN events : events[i].type = "logthrow" /\ events[i].level = "error"

(***************************************************************************)
(* The AppError constructor (part_000:30-53).                              *)
(*                                                                         *)
(* An object is a function from the keys it carries to tagged values; a    *)
(* key may be carried with the value undefined.  An argument is            *)
(* [kind, obj]: omitted (undefined), null, or an object.                   *)
(***************************************************************************)
JsDate(t) == [type |-> "date", value |-> t]
JsUndefined == [type |-> "undefined", value |-> 0]
JsComponent == [type |-> "string", value |-> 1]

Omitted == [kind |-> "undefined", obj |-> <<>>]
Null == [kind |-> "null", obj |-> <<>>]
Object(o) == [kind |-> "object", obj |-> o]

\* the timestamp a caller supplies
CallerDate == JsDate(7)

\* the context arguments tried
AppErrorContexts ==
    {Omitted, Null, Object(<<>>),
     Object([component |-> JsComponent]),
     Object([timestamp |-> CallerDate]),
     Object([timestamp |-> CallerDate, component |-> JsComponent]),
     Object([timestamp |-> JsUndefined]),
     Object([timestamp |-> JsUndefined, component |-> JsComponent])}

\* a parameter with a default value: the default replaces undefined only
DefaultParam(arg, default) == IF arg.kind = "undefined" THEN Object(default) ELSE arg

\* { ...x }: null and undefined spread to nothing
SpreadOf(arg) == IF arg.kind = "object" THEN arg.obj ELSE <<>>

\* lines 42-45: this.context = { timestamp: new Date(), ...context }
AppErrorContext(context, t) ==
    Spread([timestamp |-> JsDate(t)], SpreadOf(DefaultParam(context, <<>>)))

\* new AppError(message, code, statusCode, context, isRetryable) at time t
ConstructAppError(message, code, statusCode, context, isRetryable, t) ==
    [name |-> "AppError", message |-> message, code |-> code,
     statusCode |-> IF statusCode = None THEN 500 ELSE statusCode[1],
     context |-> AppErrorContext(context, t),
     isRetryable |-> IF isRetryable = None THEN FALSE ELSE isRetryable[1]]

AppErrInit ==
    /\ now \in StartTick..(StartTick + 2)
    /\ dirExists = TRUE
    /\ fs = <<>>
    /\ written = 0
    /\ lastWrite = None
    /\ aeCall = None

\* one construction
Construct(code, statusCode, context, isRetryable) ==
    /\ aeCall = None
    /\ aeCall' = Some([context |-> context, at |-> now,
                       error |-> ConstructAppError("failed", code, statusCode, context,
                                                   isRetryable, now)])
    /\ UNCHANGED <<coreVars, metricsVars, uptimeVars, postVars, boundaryVars>>
    /\ UNCHANGED <<retryCtxVars, raceVars, markerVars, snapVars, equivVars>>

NextAppErr ==
    \E code \in {"VALIDATION_ERROR", "RATE_LIMIT_EXCEEDED"}, statusCode \in {None, Some(404)},
       context \in AppErrorContexts, isRetryable \in {None, Some(TRUE)} :
        Construct(code, statusCode, context, isRetryable)

InitAppErr ==
    RetryIdle /\ ClsIdle /\ AppErrInit /\ MaintIdle /\ FaultIdle /\ FacadeIdle /\ HealthIdle
    /\ MetricsIdle /\ UptimeIdle /\ PostIdle /\ BoundaryIdle
    /\ RetryCtxIdle /\ RaceIdle /\ MarkerIdle /\ SnapIdle /\ EquivIdle

SpecAppErr == InitAppErr /\ [][NextAppErr]_vars

\* the caller supplied a timestamp key, and its value
Supplies(context) == context.kind = "object" /\ "timestamp" \in DOMAIN context.obj

(***************************************************************************)
(* C32. Every constructed AppError has context.timestamp set to a date:    *)
(* the caller's timestamp when one is supplied, the creation time          *)
(* otherwise, for every context argument the caller may pass, including a  *)
(* context object that carries the timestamp key with no value.            *)
(***************************************************************************)
C32_TimestampAlwaysSet ==
    aeCall # None =>
        LET c == aeCall[1]
            given == IF Supplies(c.context) /\ c.context.obj.timestamp.type = "date"
                     THEN c.context.obj.timestamp ELSE JsDate(c.at)
        IN  /\ "timestamp" \in DOMAIN c.error.context
            /\ c.error.context.timestamp.type = "date"
            /\ c.error.context.timestamp.value = given.value

\* the part of C32 that holds: the timestamp is a date unless the caller's
\* context carries the timestamp key with the value undefined
C32_UnlessCarriedEmpty ==
    (aeCall # None /\ ~(Supplies(aeCall[1].context)
                        /\ aeCall[1].context.obj.timestamp.type = "undefined")) =>
        LET c == aeCall[1]
            given == IF Supplies(c.context) THEN c.context.obj.timestamp ELSE JsDate(c.at)
        IN  /\ "timestamp" \in DOMAIN c.error.context
            /\ c.error.context.timestamp.type = "date"
            /\ c.error.context.timestamp.value = given.value

\* an AppError built from { timestamp: undefined }: its timestamp is undefined
C32_WitnessEmptyTimestamp ==
    /\ aeCall # None
    /\ aeCall[1].context = Object([timestamp |-> JsUndefined])
    /\ aeCall[1].error.context.timestamp.type = "undefined"

\* the positions of the trace at which operation() resolved
Successes == {i \in DOMAIN events : events[i].type = "ok"}

(***************************************************************************)
(* C33. If the operation passed to withRetry first succeeds on its k-th    *)
(* invocation (k <= maxAttempts, all earlier failures retryable),          *)
(* withRetry returns that invocation's result, the operation is invoked    *)
(* exactly k times, and no invocation or delay happens after the success.  *)
(***************************************************************************)
C33_FirstSuccessReturns ==
    \A i \in Successes :
        /\ pc = "returned"
        /\ outcome.kind = "returned"
        /\ outcome.value # None
        /\ calls = events[i].attempt
        /\ \A j \in (i + 1)..Len(events) : events[j].type \in {"log", "return"}

\* the part of C33 that holds: a success whose log call does not throw
C33_WhenLogsSucceed ==
    \A i \in Successes :
        (\A j \in DOMAIN events : events[j].type # "logthrow") =>
            /\ pc = "returned"
            /\ outcome.kind = "returned"
            /\ outcome.value # None
            /\ calls = events[i].attempt
            /\ \A j \in (i + 1)..Len(events) : events[j].type \in {"log", "return"}

\* the operation succeeded on its second invocation, the success log threw,
\* and withRetry rejected with the TypeError of JSON.stringify
C33_WitnessSuccessLost ==
    /\ Successes # {}
    /\ calls = 2
    /\ pc = "thrown"
    /\ outcome = [kind |-> "thrown", value |-> Some(StringifyError)]

(***************************************************************************)
(* runScheduledHealthCheck (monitoring.ts:447-469).                        *)
(***************************************************************************)
MaxScheduled == 3

\* faulty variant: a degraded run counts as healthy
IsHealthyOf_NotUnhealthy(overall) == overall # "unhealthy"

\* line 450
IsHealthyOf(overall) == overall = "healthy"

\* runHealthChecks(), its probes settling in the order they were started
RunHealthChecks(in) ==
    LET probe == [p \in Probes |-> Some(ProbeResult(p, in))]
        r     == HealthCatch(HealthBody(JoinedChecks(probe, ProbeOrder), in.tryThrows))
    IN  [threw |-> r.exc # None, overall |-> r.overall, checks |-> r.checks]

\* the try block, lines 448-463: the outcomes handed to recordCheck, and
\* whether the block was left by an exception
ScheduledBody(health, env) ==
    IF health.threw THEN [recorded |-> <<>>, exc |-> TRUE]
    ELSE LET isHealthy == IsHealthyOf(health.overall) IN
         IF ~isHealthy /\ LogThrows(env, "warn", "plain")
         THEN [recorded |-> <<isHealthy>>, exc |-> TRUE]
         ELSE [recorded |-> <<isHealthy>>, exc |-> FALSE]

\* the catch block, lines 464-468: recordCheck(false), and the error is rethrown
ScheduledCatch(r) ==
    IF r.exc THEN [recorded |-> Append(r.recorded, FALSE), exc |-> TRUE] ELSE r

\* uptimeMonitor.recordCheck for each outcome, in order
RECURSIVE RecordAll(_, _, _)
RecordAll(checks, outcomes, t) ==
    IF outcomes = <<>> THEN checks
    ELSE RecordAll(RecordCheckOp(checks, t, Head(outcomes)), Tail(outcomes), t)

ScheduledInputs ==
    [absent : EnvAbsentSets, fsFails : {{}, {"write"}}, github : {"success", "failure"},
     email : {"initialized"}, emailReachable : {TRUE}, tryThrows : BOOLEAN]

ScheduledInit ==
    /\ config = RETRY_CONFIGS.api
    /\ logLevel \in LogLevels
    /\ pc = "returned"
    /\ attempt = 0
    /\ lastError = None
    /\ calls = 0
    /\ inFlight = 0
    /\ timer = None
    /\ events = <<>>
    /\ outcome = [kind |-> "pending", value |-> None]
    /\ facadeEnv \in [mode : Modes, window : {FALSE}, webhook : {FALSE}]
    /\ facadeCall = None
    /\ hInput = None
    /\ hProbe = <<>>
    /\ hOrder = <<>>
    /\ hSnapshot = None
    /\ upChecks = <<>>
    /\ upHist = <<>>
    /\ upPattern = None
    /\ upStats = None

\* one scheduled run, the probes finding what in says
RunScheduledHealthCheck(in) ==
    /\ Len(upHist) < MaxScheduled
    /\ LET health == RunHealthChecks(in)
           r      == ScheduledCatch(ScheduledBody(health, facadeEnv))
       IN  /\ upChecks' = RecordAll(upChecks, r.recorded, Len(upHist) + 1)
           /\ upHist' = upHist \o r.recorded
           /\ hSnapshot' = Some([threw |-> r.exc, overall |-> health.overall,
                                 checks |-> health.checks, before |-> upChecks])
    /\ hInput' = Some(in)
    /\ UNCHANGED <<hProbe, hOrder, upPattern, upStats>>
    /\ UNCHANGED <<retryVars, clsVars, logVars, maintVars, faultVars, facadeVars>>
    /\ UNCHANGED <<metricsVars, postVars, boundaryVars, lateVars>>

NextScheduled == \E in \in ScheduledInputs : RunScheduledHealthCheck(in)

InitScheduled ==
    ScheduledInit /\ ClsIdle /\ LogIdle /\ MaintIdle /\ FaultIdle
    /\ MetricsIdle /\ PostIdle /\ BoundaryIdle /\ LateIdle

SpecScheduled == InitScheduled /\ [][NextScheduled]_vars

(***************************************************************************)
(* C34. Every runScheduledHealthCheck invocation appends exactly one entry *)
(* to the uptime ledger, and that entry is true iff the snapshot's overall *)
(* status is 'healthy' (a 'degraded' or 'unhealthy' run is recorded as     *)
(* false); no path through the function records zero or two entries.       *)
(***************************************************************************)
C34_OneEntryPerRun ==
    hSnapshot # None =>
        LET run == hSnapshot[1] IN
        /\ Len(upChecks) = Len(run.before) + 1
        /\ SubSeq(upChecks, 1, Len(run.before)) = run.before
        /\ upChecks[Len(upChecks)].status = (run.overall = "healthy")
        /\ Len(upHist) = Len(upChecks)

\* a degraded run after a healthy one: the ledger holds true, then false
C34_Witness ==
    /\ hSnapshot # None
    /\ hSnapshot[1].overall = "degraded"
    /\ Len(upChecks) = 2
    /\ upChecks[1].status = TRUE
    /\ upChecks[2].status = FALSE

\* an unhealthy run is recorded as false
C34_WitnessUnhealthy ==
    /\ hSnapshot # None
    /\ hSnapshot[1].overall = "unhealthy"
    /\ upChecks[Len(upChecks)].status = FALSE

(***************************************************************************)
(* C35. Rotation is stable on archived files: once a rotation pass has     *)
(* renamed an oversized file to its archival name, every later rotation    *)
(* pass leaves that name unchanged, i.e. a file is renamed by rotation at  *)
(* most once in its lifetime.  (A name carries one timestamp for each      *)
(* rename it went through.)                                                *)
(***************************************************************************)
C35_RenamedAtMostOnce ==
    \A n \in DOMAIN fs : IsLogFile(n) => Len(n.rot) <= 1

\* the part of C35 that holds: a rotation pass renames an archived file only
\* while it is oversized, so an archive never grows a third timestamp unless
\* two later passes found it oversized
C35_OnlyOversizedRenamed ==
    \A n \in DOMAIN fs : (IsLogFile(n) /\ n.rot # <<>>) => Oversized(fs[n])

\* an archived file renamed again by the rotation pass of the next write
C35_WitnessRenamedTwice ==
    /\ written = 2
    /\ \E n \in DOMAIN fs : IsLogFile(n) /\ Len(n.rot) = 2 /\ Oversized(fs[n])

(***************************************************************************)
(* Concurrent logToFile calls on one log directory (part_002:40-97).       *)
(*                                                                         *)
(* Each call is a sequence of file-system requests separated by awaits:    *)
(* the append, the readdir of rotateLogs, one unlink for each file beyond  *)
(* the ceiling, and for each file kept a stat followed, when the file is   *)
(* oversized, by a rename.  Requests of different calls interleave freely. *)
(* The archival name is stamped with the clock read when the stat returns. *)
(***************************************************************************)
RaceTicks == 1
RaceCalls == {1, 2, 3}

CallState(at, toDelete, toCheck, target, appended, clobbered, sawTooMany) ==
    [pc |-> at, toDelete |-> toDelete, toCheck |-> toCheck, target |-> target,
     appended |-> appended, clobbered |-> clobbered, sawTooMany |-> sawTooMany]

\* faulty variant: the day's file is truncated by the write
RaceAppend_Truncate(dir, c, t) ==
    WriteFileAppend_Overwrite(dir, LogName(Day(t), <<>>), Line(c, 300), t)

\* lines 45-53: the record of call c is appended to the day's file
RaceAppend(dir, c, t) ==
    WriteFileAppend(dir, LogName(Day(t), <<>>), Line(c, 300), t)

\* where a call goes once its unlinks are done or a file has been dealt with
AfterFiles(toDelete, toCheck) ==
    IF toDelete # <<>> THEN "unlink" ELSE IF toCheck # <<>> THEN "stat" ELSE "done"

\* the directories the calls find: today's file nearly full, alone or with
\* yesterday's file, or with ten older files (one more than the ceiling keeps)
RaceDirs == {Merge(OldFiles(k), NearlyFull) : k \in {0, 1}}
CrowdedDir == Merge(OldFiles(10), NearlyFull)

RaceInit ==
    /\ dirExists = TRUE
    /\ now = StartTick
    /\ written = 0
    /\ lastWrite = None
    /\ \/ /\ fs \in RaceDirs
          /\ rcProc = [c \in RaceCalls |-> CallState("append", <<>>, <<>>, None, FALSE, FALSE, FALSE)]
       \/ /\ fs = CrowdedDir
          /\ rcProc = [c \in {1} |-> CallState("append", <<>>, <<>>, None, FALSE, FALSE, FALSE)]

\* line 53: writeFile(logFile, logEntry, { flag: 'a' })
AppendStep(c) ==
    /\ rcProc[c].pc = "append"
    /\ fs' = RaceAppend(fs, c, now)
    /\ rcProc' = [rcProc EXCEPT ![c].pc = "readdir", ![c].appended = TRUE]
    /\ UNCHANGED <<dirExists, now, written, lastWrite>>
    /\ UNCHANGED <<retryVars, clsVars, maintVars, faultVars, facadeVars, healthVars>>
    /\ UNCHANGED <<metricsVars, uptimeVars, postVars, boundaryVars>>
    /\ UNCHANGED <<retryCtxVars, appErrVars, markerVars, snapVars, equivVars>>

\* lines 68-76: readdir, filter, sort, reverse, and the two slices
ReaddirStep(c) ==
    /\ rcProc[c].pc = "readdir"
    /\ LET logFiles == SortedNewestFirst({n \in DOMAIN fs : IsLogFile(n)})
           toDelete == FilesToDelete(logFiles)
           toCheck  == FilesToCheck(logFiles)
       IN  rcProc' = [rcProc EXCEPT ![c].pc = AfterFiles(toDelete, toCheck),
                                    ![c].toDelete = toDelete,
                                    ![c].toCheck = toCheck,
                                    ![c].sawTooMany = Len(logFiles) > maxLogFiles]
    /\ UNCHANGED logVars
    /\ UNCHANGED <<retryVars, clsVars, maintVars, faultVars, facadeVars, healthVars>>
    /\ UNCHANGED <<metricsVars, uptimeVars, postVars, boundaryVars>>
    /\ UNCHANGED <<retryCtxVars, appErrVars, markerVars, snapVars, equivVars>>

\* line 78: unlink(...).catch(() => {})
UnlinkStep(c) ==
    /\ rcProc[c].pc = "unlink"
    /\ fs' = Remove(fs, {Head(rcProc[c].toDelete)})
    /\ rcProc' = [rcProc EXCEPT ![c].pc = AfterFiles(Tail(rcProc[c].toDelete), rcProc[c].toCheck),
                                ![c].toDelete = Tail(rcProc[c].toDelete)]
    /\ UNCHANGED <<dirExists, now, written, lastWrite>>
    /\ UNCHANGED <<retryVars, clsVars, maintVars, faultVars, facadeVars, healthVars>>
    /\ UNCHANGED <<metricsVars, uptimeVars, postVars, boundaryVars>>
    /\ UNCHANGED <<retryCtxVars, appErrVars, markerVars, snapVars, equivVars>>

\* lines 85-89: stat; a name that is gone throws and ends the pass (line 93)
StatStep(c) ==
    /\ rcProc[c].pc = "stat"
    /\ LET file == Head(rcProc[c].toCheck)
           rest == Tail(rcProc[c].toCheck)
       IN  rcProc' =
             IF file \notin DOMAIN fs THEN [rcProc EXCEPT ![c].pc = "done"]
             ELSE IF Oversized(fs[file])
             THEN [rcProc EXCEPT ![c].pc = "rename", ![c].target = Some(ArchiveName(file, now))]
             ELSE [rcProc EXCEPT ![c].pc = AfterFiles(<<>>, rest), ![c].toCheck = rest]
    /\ UNCHANGED logVars
    /\ UNCHANGED <<retryVars, clsVars, maintVars, faultVars, facadeVars, healthVars>>
    /\ UNCHANGED <<metricsVars, uptimeVars, postVars, boundaryVars>>
    /\ UNCHANGED <<retryCtxVars, appErrVars, markerVars, snapVars, equivVars>>

\* line 90: rename replaces whatever has the archival name; a source that is
\* gone throws and ends the pass
RenameStep(c) ==
    /\ rcProc[c].pc = "rename"
    /\ LET file == Head(rcProc[c].toCheck)
           rest == Tail(rcProc[c].toCheck)
           to   == rcProc[c].target[1]
       IN  IF file \notin DOMAIN fs
           THEN /\ rcProc' = [rcProc EXCEPT ![c].pc = "done"]
                /\ UNCHANGED fs
           ELSE /\ fs' = Rename(fs, file, to)
                /\ rcProc' = [rcProc EXCEPT ![c].pc = AfterFiles(<<>>, rest),
                                            ![c].toCheck = rest,
                                            ![c].target = None,
                                            ![c].clobbered = to \in DOMAIN fs]
    /\ UNCHANGED <<dirExists, now, written, lastWrite>>
    /\ UNCHANGED <<retryVars, clsVars, maintVars, faultVars, facadeVars, healthVars>>
    /\ UNCHANGED <<metricsVars, uptimeVars, postVars, boundaryVars>>
    /\ UNCHANGED <<retryCtxVars, appErrVars, markerVars, snapVars, equivVars>>

\* a millisecond passes
RaceTick ==
    /\ now < StartTick + RaceTicks
    /\ now' = now + 1
    /\ UNCHANGED <<dirExists, fs, written, lastWrite, rcProc>>
    /\ UNCHANGED <<retryVars, clsVars, maintVars, faultVars, facadeVars, healthVars>>
    /\ UNCHANGED <<metricsVars, uptimeVars, postVars, boundaryVars>>
    /\ UNCHANGED <<retryCtxVars, appErrVars, markerVars, snapVars, equivVars>>

NextRace ==
    \/ \E c \in DOMAIN rcProc : AppendStep(c)
    \/ \E c \in DOMAIN rcProc : ReaddirStep(c)
    \/ \E c \in DOMAIN rcProc : UnlinkStep(c)
    \/ \E c \in DOMAIN rcProc : StatStep(c)
    \/ \E c \in DOMAIN rcProc : RenameStep(c)
    \/ RaceTick

InitRace ==
    RetryIdle /\ ClsIdle /\ RaceInit /\ MaintIdle /\ FaultIdle /\ FacadeIdle /\ HealthIdle
    /\ MetricsIdle /\ UptimeIdle /\ PostIdle /\ BoundaryIdle
    /\ RetryCtxIdle /\ AppErrIdle /\ MarkerIdle /\ SnapIdle /\ EquivIdle

SpecRace == InitRace /\ [][NextRace]_vars

\* the log files that hold the record with this id
Holders(id) ==
    {n \in DOMAIN fs : IsLogFile(n) /\ \E i \in DOMAIN fs[n].lines : fs[n].lines[i].id = id}

\* the records written: the one today's file held at the start, and the
\* record of every call whose append is done
WrittenIds == {0} \cup {c \in DOMAIN rcProc : rcProc[c].appended}

\* the number of log files stayed at or below the ceiling
WithinCeiling ==
    /\ Cardinality({n \in DOMAIN fs : IsLogFile(n)}) <= maxLogFiles
    /\ \A c \in DOMAIN rcProc : ~rcProc[c].sawTooMany

(***************************************************************************)
(* C36 as stated.  Under any interleaving of concurrent logToFile calls,   *)
(* as long as the number of log files stays at or below the retained-file  *)
(* ceiling, every record whose append succeeded remains present in exactly *)
(* one log file: a rotation rename racing with appends or with another     *)
(* rotation never loses or overwrites a written record.                    *)
(***************************************************************************)
C36_AsStated ==
    WithinCeiling => \A id \in WrittenIds : Cardinality(Holders(id)) = 1

(***************************************************************************)
(* C36, amended.  Under any interleaving of concurrent logToFile calls, as *)
(* long as the number of log files stays at or below the ceiling and no    *)
(* rename finds its archival name already taken, every record whose append *)
(* succeeded remains present in exactly one log file.  (The archival name  *)
(* is taken when two passes found the same file oversized, stamped their   *)
(* archival names in the same millisecond, and an append recreated the     *)
(* file between their renames; the second rename then replaces the first   *)
(* archive.)                                                               *)
(***************************************************************************)
C36_NoLossUnlessNameTaken ==
    (WithinCeiling /\ \A c \in DOMAIN rcProc : ~rcProc[c].clobbered) =>
        \A id \in WrittenIds : Cardinality(Holders(id)) = 1

\* three calls done, two renames made at different milliseconds, the second
\* one of a file recreated by an append: two archives, every record kept
C36_Witness ==
    /\ WithinCeiling
    /\ \A c \in RaceCalls : c \in DOMAIN rcProc /\ rcProc[c].pc = "done" /\ ~rcProc[c].clobbered
    /\ Cardinality({n \in DOMAIN fs : IsLogFile(n) /\ n.date = StartDay /\ Len(n.rot) = 1}) = 2
    /\ \A id \in WrittenIds : Cardinality(Holders(id)) = 1

\* the second rename replaced the first archive: the record today's file held
\* at the start is in no file
C36_WitnessOverwritten ==
    /\ WithinCeiling
    /\ \E c \in DOMAIN rcProc : rcProc[c].clobbered
    /\ Holders(0) = {}

(***************************************************************************)
(* Concurrent file-system probes (monitoring.ts:132-177).                  *)
(*                                                                         *)
(* Every checkFileSystem call uses the same path, os.tmpdir() +            *)
(* '/.health-check'.  A call is a sequence of file-system requests         *)
(* separated by awaits: writeFile opens the path (creating or truncating   *)
(* the file) and then writes its content, readFile, unlink.  A call that   *)
(* opened the file before another call unlinked it writes into a file      *)
(* that no longer has a name.                                              *)
(***************************************************************************)
MarkerProbes == {1, 2}

ProbeState(at, open, status) == [pc |-> at, open |-> open, status |-> status]

\* the step throws: the file system fails on it and the code does not swallow it
StepThrows(step, failing) == step \in failing /\ ~Swallowed(step)

\* catch (error) { return { status: 'unhealthy', ... } }
Unhealthy(p) == [mkProc EXCEPT ![p] = ProbeState("done", FALSE, "unhealthy")]

MarkerInit ==
    /\ hInput \in [absent : {{}}, fsFails : FsFailingSets, github : {"success"},
                   email : {"initialized"}, emailReachable : {TRUE}, tryThrows : {FALSE}]
    /\ hProbe = None
    /\ hOrder = <<>>
    /\ hSnapshot = None
    /\ mkProc = [p \in MarkerProbes |-> ProbeState("open", FALSE, "")]
    /\ mkFile = None

\* line 145, first half: the path is opened for writing, created or truncated
OpenStep(p) ==
    /\ mkProc[p].pc = "open"
    /\ IF StepThrows("write", hInput.fsFails)
       THEN mkProc' = Unhealthy(p) /\ UNCHANGED mkFile
       ELSE /\ mkFile' = Some([full |-> FALSE])
            /\ mkProc' = [mkProc EXCEPT ![p] = ProbeState("write", TRUE, "")]
    /\ UNCHANGED <<hInput, hProbe, hOrder, hSnapshot>>
    /\ UNCHANGED <<retryVars, clsVars, logVars, maintVars, faultVars, facadeVars>>
    /\ UNCHANGED <<metricsVars, uptimeVars, postVars, boundaryVars>>
    /\ UNCHANGED <<retryCtxVars, appErrVars, raceVars, snapVars, equivVars>>

\* line 145, second half: the content is written through the open descriptor
WriteStep(p) ==
    /\ mkProc[p].pc = "write"
    /\ mkFile' = IF mkProc[p].open /\ mkFile # None THEN Some([full |-> TRUE]) ELSE mkFile
    /\ mkProc' = [mkProc EXCEPT ![p] = ProbeState("read", FALSE, "")]
    /\ UNCHANGED <<hInput, hProbe, hOrder, hSnapshot>>
    /\ UNCHANGED <<retryVars, clsVars, logVars, maintVars, faultVars, facadeVars>>
    /\ UNCHANGED <<metricsVars, uptimeVars, postVars, boundaryVars>>
    /\ UNCHANGED <<retryCtxVars, appErrVars, raceVars, snapVars, equivVars>>

\* lines 148-149: readFile throws when the path is gone, JSON.parse throws on
\* the empty content of a file just truncated
ReadStep(p) ==
    /\ mkProc[p].pc = "read"
    /\ mkProc' =
         IF StepThrows("read", hInput.fsFails) \/ mkFile = None THEN Unhealthy(p)
         ELSE IF StepThrows("parse", hInput.fsFails) \/ ~mkFile[1].full THEN Unhealthy(p)
         ELSE [mkProc EXCEPT ![p] = ProbeState("unlink", FALSE, "")]
    /\ UNCHANGED <<mkFile, hInput, hProbe, hOrder, hSnapshot>>
    /\ UNCHANGED <<retryVars, clsVars, logVars, maintVars, faultVars, facadeVars>>
    /\ UNCHANGED <<metricsVars, uptimeVars, postVars, boundaryVars>>
    /\ UNCHANGED <<retryCtxVars, appErrVars, raceVars, snapVars, equivVars>>

\* lines 152-162: unlink(testFile).catch(() => {}), then 'healthy'; the file
\* loses its name, so the descriptors open on it write nowhere
UnlinkMarker(p) ==
    /\ mkProc[p].pc = "unlink"
    /\ mkFile' = IF "unlink" \in hInput.fsFails THEN mkFile ELSE None
    /\ mkProc' = [q \in MarkerProbes |->
                    IF q = p THEN ProbeState("done", FALSE, "healthy")
                    ELSE IF "unlink" \in hInput.fsFails THEN mkProc[q]
                    ELSE [mkProc[q] EXCEPT !.open = FALSE]]
    /\ UNCHANGED <<hInput, hProbe, hOrder, hSnapshot>>
    /\ UNCHANGED <<retryVars, clsVars, logVars, maintVars, faultVars, facadeVars>>
    /\ UNCHANGED <<metricsVars, uptimeVars, postVars, boundaryVars>>
    /\ UNCHANGED <<retryCtxVars, appErrVars, raceVars, snapVars, equivVars>>

NextMarker ==
    \/ \E p \in MarkerProbes : OpenStep(p)
    \/ \E p \in MarkerProbes : WriteStep(p)
    \/ \E p \in MarkerProbes : ReadStep(p)
    \/ \E p \in MarkerProbes : UnlinkMarker(p)

InitMarker ==
    RetryIdle /\ ClsIdle /\ LogIdle /\ MaintIdle /\ FaultIdle /\ FacadeIdle /\ MarkerInit
    /\ MetricsIdle /\ UptimeIdle /\ PostIdle /\ BoundaryIdle
    /\ RetryCtxIdle /\ AppErrIdle /\ RaceIdle /\ SnapIdle /\ EquivIdle

SpecMarker == InitMarker /\ [][NextMarker]_vars

(***************************************************************************)
(* C37. Two runHealthChecks invocations running concurrently do not        *)
(* interfere through the shared marker file: when the file system is       *)
(* working, the filesystem probe of each invocation reports 'healthy' for  *)
(* every interleaving of the two probes' write, read and delete steps.     *)
(***************************************************************************)
C37_ProbesDoNotInterfere ==
    hInput.fsFails = {} =>
        \A p \in MarkerProbes : mkProc[p].pc = "done" => mkProc[p].status = "healthy"

\* the part of C37 that holds: the probe that finishes first, the other one
\* not having opened the file yet, reports what the file system does
C37_AloneIsHealthy ==
    hInput.fsFails = {} =>
        \A p \in MarkerProbes :
            (mkProc[p].pc = "done" /\ \A q \in MarkerProbes \ {p} : mkProc[q].pc = "open") =>
                mkProc[p].status = "healthy"

\* the file system works, one probe is healthy, the other found the file gone
C37_WitnessInterference ==
    /\ hInput.fsFails = {}
    /\ mkProc[1] = ProbeState("done", FALSE, "healthy")
    /\ mkProc[2] = ProbeState("done", FALSE, "unhealthy")

(***************************************************************************)
(* Metrics snapshots (monitoring.ts:301-348).                              *)
(*                                                                         *)
(* The store this.metrics is an object whose field endpoints refers to a   *)
(* second object.  mHeap holds the endpoints objects ever allocated, the   *)
(* last one being the one of the store; mMetrics is the store with its     *)
(* reference followed.  A snapshot is kept as the object getMetrics        *)
(* returned, its endpoints field being a reference into mHeap, together    *)
(* with the value it had when it was returned.                             *)
(***************************************************************************)
ResponseTimes == {1, 3}

\* getMetrics (monitoring.ts:331-333): { ...this.metrics } copies the own
\* properties of the store, the reference held by endpoints included
GetMetrics(m, ref) ==
    [requestCount |-> m.requestCount, averageResponseTime |-> m.averageResponseTime,
     errorRate |-> m.errorRate, lastReset |-> m.lastReset, endpoints |-> ref]

\* what a holder of the object s reads from it
Deref(s, heap) == [s EXCEPT !.endpoints = heap[s.endpoints]]

SnapInit ==
    /\ mMetrics = Some(FreshMetrics)
    /\ mNow = 0
    /\ mFlight = {}
    /\ mNext = 0
    /\ mDone = <<>>
    /\ mLog = <<>>
    /\ mEpoch = 0
    /\ mHeap = <<FreshMetrics.endpoints>>
    /\ mSnap = None

\* recordRequest(endpoint, responseTime, isError): the endpoints object of the
\* store is updated in place
RecordRequestCall(endpoint, responseTime, isError) ==
    /\ mNext < MaxInvocations
    /\ mNext' = mNext + 1
    /\ LET m == RecordRequest(mMetrics[1], endpoint, responseTime, isError)
       IN  /\ mMetrics' = Some(m)
           /\ mHeap' = [mHeap EXCEPT ![Len(mHeap)] = m.endpoints]
    /\ mNow' = mNow + 1
    /\ UNCHANGED <<mSnap, mFlight, mDone, mLog, mEpoch>>
    /\ UNCHANGED <<coreVars, uptimeVars, postVars, boundaryVars>>
    /\ UNCHANGED <<retryCtxVars, appErrVars, raceVars, markerVars, equivVars>>

\* a caller takes a snapshot and keeps it
GetMetricsCall ==
    /\ mSnap = None
    /\ mSnap' = Some([snapshot |-> GetMetrics(mMetrics[1], Len(mHeap)),
                      returned |-> mMetrics[1]])
    /\ mNow' = mNow + 1
    /\ UNCHANGED <<mMetrics, mHeap, mNext, mFlight, mDone, mLog, mEpoch>>
    /\ UNCHANGED <<coreVars, uptimeVars, postVars, boundaryVars>>
    /\ UNCHANGED <<retryCtxVars, appErrVars, raceVars, markerVars, equivVars>>

\* resetMetrics (monitoring.ts:338-348): the store becomes a new object with
\* a new endpoints object
ResetMetricsCall ==
    /\ mEpoch < MaxResets
    /\ mEpoch' = mEpoch + 1
    /\ mMetrics' = Some(ResetMetricsOp(mNow))
    /\ mHeap' = Append(mHeap, ResetMetricsOp(mNow).endpoints)
    /\ mNow' = mNow + 1
    /\ UNCHANGED <<mSnap, mNext, mFlight, mDone, mLog>>
    /\ UNCHANGED <<coreVars, uptimeVars, postVars, boundaryVars>>
    /\ UNCHANGED <<retryCtxVars, appErrVars, raceVars, markerVars, equivVars>>

NextSnap ==
    \/ \E endpoint \in Endpoints, responseTime \in ResponseTimes, isError \in BOOLEAN :
          RecordRequestCall(endpoint, responseTime, isError)
    \/ GetMetricsCall
    \/ ResetMetricsCall

InitSnap ==
    RetryIdle /\ ClsIdle /\ LogIdle /\ MaintIdle /\ FaultIdle /\ FacadeIdle /\ HealthIdle
    /\ SnapInit /\ UptimeIdle /\ PostIdle /\ BoundaryIdle
    /\ RetryCtxIdle /\ AppErrIdle /\ RaceIdle /\ MarkerIdle /\ EquivIdle

SpecSnap == InitSnap /\ [][NextSnap]_vars

\* the snapshot as its holder reads it now
SnapshotNow == Deref(mSnap[1].snapshot, mHeap)

(***************************************************************************)
(* C38. A snapshot returned by getMetrics is isolated from later updates:  *)
(* after any later recordRequest or resetMetrics it still has the values   *)
(* it had when returned, and its requestCount still equals the sum of the  *)
(* counts of its own endpoints.                                            *)
(***************************************************************************)
C38_SnapshotIsolated ==
    mSnap # None =>
        /\ SnapshotNow = mSnap[1].returned
        /\ SnapshotNow.requestCount = SumField(SnapshotNow.endpoints, "count")

\* the part of C38 that holds: the scalar fields are copied, and the
\* endpoints of the snapshot are those of the store only until the next reset
C38_ScalarsIsolated ==
    mSnap # None =>
        /\ \A f \in {"requestCount", "averageResponseTime", "errorRate", "lastReset"} :
              SnapshotNow[f] = mSnap[1].returned[f]
        /\ mSnap[1].snapshot.endpoints = Len(mHeap) =>
              SnapshotNow.endpoints = mMetrics[1].endpoints

\* resetMetrics and what follows it leave the snapshot as it is
C38_IsolatedAfterReset ==
    [][(mSnap # None /\ mSnap[1].snapshot.endpoints < Len(mHeap)) =>
          Deref(mSnap[1].snapshot, mHeap') = SnapshotNow]_vars

\* a snapshot taken after one request shows one request and two endpoint hits
C38_WitnessTorn ==
    /\ mSnap # None
    /\ mSnap[1].returned.requestCount = 1
    /\ SnapshotNow.requestCount = 1
    /\ SumField(SnapshotNow.endpoints, "count") = 2

(***************************************************************************)
(* The two file loggers side by side (part_001, part_002).                 *)
(*                                                                         *)
(* ErrorLogger (part_001) and ServerErrorLogger (part_002) run in the same *)
(* server process on the same directory.  Every call is carried out by one *)
(* of them, and eqCall records what each of the two makes of it from the   *)
(* directory the call found.                                               *)
(***************************************************************************)
FileLoggers == {"ErrorLogger", "ServerErrorLogger"}

\* ErrorLogger.logToFile (part_001:38-62) and rotateLogs (67-99): the calls of
\* ServerErrorLogger, reached through a dynamic import of fs/promises
ErrorLoggerLogToFileOp(dir, exists, line, t, F) == LogToFileOp(dir, exists, line, t, F)

\* ErrorLogger.clearLogs (part_001:261-281)
ErrorLoggerClearLogsOp(dir, exists, olderThanDays, t, files, F) ==
    ClearLogsOp(dir, exists, olderThanDays, t, files, F)

\* the try block of ErrorLogger.getRecentLogs (part_001:209-251): line 213 calls
\* mkdir, a name bound nowhere in the module (line 210 binds only fs), so the
\* call throws a ReferenceError before any file-system request is made
ErrorLoggerGetRecentLogsBody(dir, exists, limit, F) ==
    [exc |-> Some("ReferenceError"), logs |-> <<>>, exists |-> exists]

\* with the catch block of lines 252-255
ErrorLoggerGetRecentLogsOp(dir, exists, limit, F) ==
    GetRecentLogsCatch(ErrorLoggerGetRecentLogsBody(dir, exists, limit, F))

\* what a call leaves and returns
Effect(dir, exists, logs) == [dir |-> dir, exists |-> exists, logs |-> logs]

\* yesterday's file absent or with three records, today's with any content
EquivDirs ==
    {MaintDir(ya, None, to) :
        ya \in {None, Some(Full("1", "2", "3"))}, to \in Contents("7", "8", "9")}

EquivInit ==
    /\ \/ dirExists = FALSE /\ fs = Remove(Others, DOMAIN Others)
       \/ dirExists = TRUE /\ fs \in EquivDirs
    /\ now = StartTick
    /\ written = 0
    /\ lastWrite = None
    /\ eqCall = <<>>

\* the call is carried out by logger by: the directory becomes what it leaves
Carry(op, arg, by, server, client) ==
    /\ eqCall' = <<[op |-> op, arg |-> arg, by |-> by, server |-> server, client |-> client,
                    previous |-> IF eqCall # <<>> /\ eqCall[1].op = "logToFile"
                                 THEN Some([op |-> eqCall[1].op, arg |-> eqCall[1].arg,
                                            by |-> eqCall[1].by])
                                 ELSE None]>>
    /\ fs' = IF by = "ServerErrorLogger" THEN server.dir ELSE client.dir
    /\ dirExists' = IF by = "ServerErrorLogger" THEN server.exists ELSE client.exists

EquivLogToFile(by, bytes) ==
    /\ written < MaxWrites
    /\ written' = written + 1
    /\ LET line == RecordLine(written + 1, bytes)
           s == LogToFileOp(fs, dirExists, line, now, {})
           c == ErrorLoggerLogToFileOp(fs, dirExists, line, now, {})
       IN  Carry("logToFile", line.text[2], by,
                 Effect(s.dir, s.exists, <<>>), Effect(c.dir, c.exists, <<>>))
    /\ UNCHANGED <<now, lastWrite>>
    /\ UNCHANGED <<retryVars, clsVars, maintVars, faultVars, facadeVars, healthVars>>
    /\ UNCHANGED <<metricsVars, uptimeVars, postVars, boundaryVars>>
    /\ UNCHANGED <<retryCtxVars, appErrVars, raceVars, markerVars, snapVars>>

EquivGetRecentLogs(by, limit) ==
    /\ LET s == GetRecentLogsOp(fs, dirExists, limit, {})
           c == ErrorLoggerGetRecentLogsOp(fs, dirExists, limit, {})
       IN  Carry("getRecentLogs", limit, by,
                 Effect(fs, s.exists, s.logs), Effect(fs, c.exists, c.logs))
    /\ UNCHANGED <<now, written, lastWrite>>
    /\ UNCHANGED <<retryVars, clsVars, maintVars, faultVars, facadeVars, healthVars>>
    /\ UNCHANGED <<metricsVars, uptimeVars, postVars, boundaryVars>>
    /\ UNCHANGED <<retryCtxVars, appErrVars, raceVars, markerVars, snapVars>>

EquivClearLogs(by, olderThanDays, files) ==
    /\ LET s == ClearLogsOp(fs, dirExists, olderThanDays, now, files, {})
           c == ErrorLoggerClearLogsOp(fs, dirExists, olderThanDays, now, files, {})
       IN  Carry("clearLogs", olderThanDays, by,
                 Effect(s.dir, dirExists, <<>>), Effect(c.dir, dirExists, <<>>))
    /\ UNCHANGED <<now, written, lastWrite>>
    /\ UNCHANGED <<retryVars, clsVars, maintVars, faultVars, facadeVars, healthVars>>
    /\ UNCHANGED <<metricsVars, uptimeVars, postVars, boundaryVars>>
    /\ UNCHANGED <<retryCtxVars, appErrVars, raceVars, markerVars, snapVars>>

NextEquiv ==
    \/ \E by \in FileLoggers : EquivLogToFile(by, 100)
    \/ \E by \in FileLoggers, limit \in 0..MaxLimit : EquivGetRecentLogs(by, limit)
    \/ \E by \in FileLoggers, d \in 0..MaxDays, files \in ReaddirOrders(fs) :
          EquivClearLogs(by, d, files)

InitEquiv ==
    RetryIdle /\ ClsIdle /\ EquivInit /\ MaintIdle /\ FaultIdle /\ FacadeIdle /\ HealthIdle
    /\ MetricsIdle /\ UptimeIdle /\ PostIdle /\ BoundaryIdle
    /\ RetryCtxIdle /\ AppErrIdle /\ RaceIdle /\ MarkerIdle /\ SnapIdle

SpecEquiv == InitEquiv /\ [][NextEquiv]_vars

\* getRecentLogs(limit >= 1) by logger l right after a logToFile by logger l
ReadsBackOwnWrite(l) ==
    /\ eqCall # <<>>
    /\ eqCall[1].op = "getRecentLogs" /\ eqCall[1].by = l /\ eqCall[1].arg >= 1
    /\ eqCall[1].previous # None
    /\ eqCall[1].previous[1].op = "logToFile" /\ eqCall[1].previous[1].by = l

\* the record the previous call wrote is the first one returned
ReturnsWritten(logs) == logs # <<>> /\ logs[1].id = eqCall[1].previous[1].arg

(***************************************************************************)
(* C39. ErrorLogger and ServerErrorLogger are equivalent when run on the   *)
(* server on the same directory: every logToFile, getRecentLogs and        *)
(* clearLogs call leaves the same directory and returns the same records   *)
(* with either logger, and a record written by ErrorLogger.logToFile is    *)
(* returned by a following ErrorLogger.getRecentLogs(limit >= 1).          *)
(***************************************************************************)
C39_LoggersEquivalent ==
    eqCall # <<>> =>
        /\ eqCall[1].server = eqCall[1].client
        /\ ReadsBackOwnWrite("ErrorLogger") => ReturnsWritten(eqCall[1].client.logs)

\* the part of C39 that holds: logToFile and clearLogs are the same in both,
\* and ServerErrorLogger reads back what it wrote
C39_WritesAndClearsAgree ==
    eqCall # <<>> =>
        /\ eqCall[1].op \in {"logToFile", "clearLogs"} => eqCall[1].server = eqCall[1].client
        /\ ReadsBackOwnWrite("ServerErrorLogger") => ReturnsWritten(eqCall[1].server.logs)

\* ErrorLogger.getRecentLogs never returns a record
C39_ErrorLoggerReadsNothing ==
    (eqCall # <<>> /\ eqCall[1].op = "getRecentLogs") => eqCall[1].client.logs = <<>>

\* ErrorLogger wrote a record and reads back nothing where ServerErrorLogger
\* would return it
C39_WitnessLostRead ==
    /\ ReadsBackOwnWrite("ErrorLogger")
    /\ eqCall[1].client.logs = <<>>
    /\ ReturnsWritten(eqCall[1].server.logs)

\* logError on the server handed the record to serverErrorLogger.log: the
\* level passes shouldLog, the record serializes, the mode is not development,
\* and the file system accepts the write
ForwardedToServerLogger ==
    /\ facadeCall # None
    /\ facadeCall[1].fn = "Logger.log" /\ facadeCall[1].level = "error"
    /\ ShouldLog("error") /\ ~facadeCall[1].threw
    /\ facadeEnv.mode # "development" /\ ~facadeEnv.window
    /\ ~facadeCall[1].faults.file

(***************************************************************************)
(* C40. The Logger facade and the server logger agree on the execution     *)
(* mode: for every value of the mode setting (development, production,     *)
(* any other value or unset) each error-level record that logError         *)
(* forwards to serverErrorLogger.log on the server is appended to the      *)
(* day's log file; no record is handed over and then not persisted.        *)
(***************************************************************************)
C40_ModesAgree ==
    ForwardedToServerLogger => Out("logToFile", TRUE) \in Range(facadeCall[1].events)

\* the part of C40 that holds: in production the forwarded record is written,
\* once
C40_ProductionPersists ==
    (ForwardedToServerLogger /\ facadeEnv.mode = "production") =>
        /\ Out("logToFile", TRUE) \in Range(facadeCall[1].events)
        /\ CountOf("logToFile") = 1

\* in a mode that is neither development nor production the forwarded record
\* reaches the console and nothing else
C40_WitnessNotPersisted ==
    /\ ForwardedToServerLogger
    /\ facadeEnv.mode = "test" /\ ~facadeEnv.webhook
    /\ facadeCall[1].events = <<Out("console", TRUE)>>

====
